---- MODULE Spec2Model ----
(***************************************************************************)
(* Load orchestrator of sling: TaskExecution.WriteToDb                      *)
(* (core/sling/task_run_write.go) and the Snowflake bulk import             *)
(* SnowflakeConn.BulkImportFlow / CopyViaStage                              *)
(* (core/dbio/database/database_snowflake.go).                              *)
(*                                                                         *)
(* Spec       one run of WriteToDb against a target connection.  The calls  *)
(*            on the connection are steps; each may fail.                   *)
(* StageSpec  one run of CopyViaStage with its goroutines: the local file   *)
(*            writer, the stage PUTs, and the schema-change handlers.       *)
(***************************************************************************)
EXTENDS Integers, Sequences, FiniteSets, TLC

\* ------------------------------------------------------------- bounds
MaxRows == 2      \* rows the source Dataflow carries
MaxFiles == 2     \* local files the writer goroutine makes ready
MaxEvents == 1    \* schema-change events raised during one import
MaxRange == 3     \* characters of the --range string

Keys == {1, 2}    \* primary-key values
Vals == {1}       \* payload of a staged row; 0 marks a pre-existing row

\* ------------------------------------------------------------- modes
TruncateMode == "truncate"
FullRefreshMode == "full-refresh"
IncrementalMode == "incremental"
SnapshotMode == "snapshot"
BackfillMode == "backfill"

\* the modes WriteToDb can be called with: the five DetermineType accepts, or none
Modes == {"", FullRefreshMode, TruncateMode, IncrementalMode, SnapshotMode, BackfillMode}

VARIABLES
  \* ---- WriteToDb
  pc,               \* position of WriteToDb: the step it is at, or returned from
  returned,         \* WriteToDb has returned
  Mode,             \* cfg.Mode
  hasPK,            \* len(cfg.Source.PrimaryKey()) > 0
  AddNewColumns,    \* *cfg.Target.Options.AddNewColumns
  adjustColumnType, \* cfg.Target.Options.AdjustColumnType set and true
  dfColumns,        \* len(df.Columns)
  srcRows,          \* the rows the Dataflow streams
  allowEmptyTables, \* SLING_ALLOW_EMPTY_TABLES read as true (FALSE until read)
  errorOnChecksumFailure, \* ERROR_ON_CHECKSUM_FAILURE read as set (FALSE until read)
  checksum,         \* outcome of CompareChecksums: "none", "passed", "failed"
  cnt,              \* count returned by BulkImportFlow
  tCnt,             \* count read back from the staging table
  err,              \* error WriteToDb returns (TRUE: non-nil)
  errCtx,           \* the context the returned error was wrapped in
  dfErr,            \* df.Err() # nil: an error captured in the Dataflow's context
  tmpTable,         \* staging table cfg.Target.Options.TableTmp
  finalTable,       \* final table cfg.Target.Object
  tx,               \* transaction open on tgtConn: "none", "staging", "merge"
  txSnap,           \* the final table as it was when the merge transaction began
  created,          \* createTableIfNotExists created the final table
  ops,              \* calls made on the target connection so far, in order
  cleanupTasks,     \* tasks registered with t.AddCleanupTask
  cleanupRan,       \* the registered cleanup tasks have been executed
  \* ---- CopyViaStage
  spc,              \* position of CopyViaStage's own goroutine
  wpc,              \* position of the local file writer goroutine
  hpc,              \* position of a schema-change handler call
  fileReadyChn,     \* files queued in fileReadyChn
  chnClosed,        \* fileReadyChn has been closed
  filesMade,        \* files the writer produced so far
  ctxWg,            \* context.Wg.Write of CopyViaStage's own context
  connWg,           \* conn.Context().Wg.Write
  mux,              \* holder of conn.Mux: "free", "loop", "handler"
  ctxErr,           \* context.Err() # nil (the connection's context was cancelled)
  events,           \* schema-change events raised so far
  copied,           \* COPY INTO of the stage folder has been executed
  stageRet,         \* what CopyViaStage returned: "none", "ok", "error"
  adjustProp,       \* cast.ToBool(conn.GetProp("adjust_column_type"))
  deferred,         \* the actions registered by df.Defer, in order
  cleaned,          \* the registered actions df.CleanUp has run, in order
  stageErr,         \* CopyViaStage's named result err, which every doPut assigns
  putStored,        \* doPut calls that assigned err and have not yet tested it
  putFailed,        \* some conn.StagePUT returned an error
  \* ---- Config
  called,           \* the calls made on the Config so far, in order
  Mode0,            \* cfg.Mode as the configuration gave it
  UpdateKey,        \* cfg.Source.UpdateKey
  srcType,          \* kind of cfg.SrcConn: "db", "bigtable", "file" (or stdin), "unknown"
  tgtType,          \* kind of cfg.TgtConn: "db", "file" (or stdout), "unknown"
  srcStreamProvided, \* cfg.Source.Stream != ""
  tgtPostSQL,       \* cfg.Target.Options.PostSQL != ""
  Range,            \* cfg.Source.Options.Range: <<>> when nil, else <<the string>>
  MetadataLoadedAt, \* cfg.MetadataLoadedAt
  loadedAtColumn,   \* os.Getenv("SLING_LOADED_AT_COLUMN") once cfg.Env is applied
  Type,             \* the JobType DetermineType returned ("" : none)
  cfgErr,           \* DetermineType returned an error
  rangeArr,         \* rangeArr of ReadFromDB: the parts of the range it split
  readRet,          \* how ReadFromDB ended: "none", "ok", "error", "panic"
  Object,           \* cfg.Target.Object, parsed: schema and name (a string of characters)
  connType,         \* tgtConn.GetType()
  TableTmpOpt,      \* cfg.Target.Options.TableTmp as the user gave it (<<>>: not given)
  TableTmp,         \* cfg.Target.Options.TableTmp after lines 105-130, one per run
  \* ---- columns
  epc,              \* position of the run, seen through the columns
  dfCols,           \* df.Columns: name and type of each column, by position
  tmpCols,          \* columns of the staging table
  finCols,          \* columns of the final table (<<>>: no table)
  tgtColumns,       \* cfg.Target.columns, the cached target columns
  TableDDL,         \* columns of cfg.Target.Options.TableDDL (<<>>: not given)
  tmpData,          \* rows of the staging table, one value per column
  ddl,              \* ALTER statements issued on the staging table
  event,            \* the column event being handled
  lastEvent,        \* the last column event that was applied
  handled,          \* column events handled so far
  \* ---- decimals
  dpc,              \* position of a decimal's way through the two conversions
  decValStr,        \* the decimal string, a sequence of characters
  decScale,         \* its scale: the digits after the point
  decLength,        \* the length asked of the byte array (-1: the fewest bytes)
  decValBytes,      \* the big-endian byte array
  decOut,           \* the string made of the byte array
  \* ---- main
  mainpc,           \* position of main: "idle", "select", "waiting", "exited"
  cmdpc,            \* position of the goroutine that runs cliInit
  CliObjName,       \* g.CliObj.Name, the sub-command of the command line
  ScUsed,           \* cliRun.Sc.Used
  interruptCh,      \* signals queued in the channel interrupt (capacity 1)
  killCh,           \* signals queued in the channel kill (capacity 1)
  exitCode,         \* the variable exitCode of main
  interrupted,      \* the package variable interrupted
  cancels,          \* calls of ctx.Cancel() made so far
  exitStatus        \* the status the process exited with (-1: it has not)

wvars == <<pc, returned, Mode, hasPK, AddNewColumns, adjustColumnType, dfColumns, srcRows,
           allowEmptyTables, errorOnChecksumFailure, checksum, cnt, tCnt, err, errCtx,
           tmpTable, finalTable, tx, txSnap, created,
           ops, cleanupTasks, cleanupRan>>
svars == <<spc, wpc, hpc, fileReadyChn, chnClosed, filesMade, ctxWg, connWg, mux,
           ctxErr, events, copied, stageRet, adjustProp, deferred, cleaned, stageErr, putStored, putFailed>>
cvars == <<called, Mode0, UpdateKey, srcType, tgtType, srcStreamProvided, tgtPostSQL, Range,
           MetadataLoadedAt, loadedAtColumn, Type, cfgErr, rangeArr, readRet,
           Object, connType, TableTmpOpt, TableTmp>>
evars == <<epc, dfCols, tmpCols, finCols, tgtColumns, TableDDL, tmpData, ddl, event,
           lastEvent, handled>>
dvars == <<dpc, decValStr, decScale, decLength, decValBytes, decOut>>
mvars == <<mainpc, cmdpc, CliObjName, ScUsed, interruptCh, killCh, exitCode, interrupted, cancels,
           exitStatus>>

vars == <<wvars, svars, cvars, evars, dvars, mvars, dfErr>>

\* ------------------------------------------------------------- tables
Row == Keys \X (Vals \cup {0})

RECURSIVE SeqsUpTo(_, _)
SeqsUpTo(S, n) ==
  IF n = 0 THEN {<<>>}
  ELSE LET shorter == SeqsUpTo(S, n - 1)
       IN shorter \cup {Append(s, x) : s \in {t \in shorter : Len(t) = n - 1}, x \in S}

\* a pre-existing final table: rows for the first n keys, payload 0
OldRows(n) == [i \in 1..n |-> <<i, 0>>]

NoTable == [exists |-> FALSE, rows |-> <<>>]
Table(rows) == [exists |-> TRUE, rows |-> rows]

\* a drop that leaves the table and its rows
DropTable_Keep(t) == t

\* conn.DropTable: drop if exists
DropTable(t) == NoTable

\* createTableIfNotExists: <<created, table>>; an existing table is left as it is
createTableIfNotExists(t) == IF t.exists THEN <<FALSE, t>> ELSE <<TRUE, Table(<<>>)>>

\* tgtConn.SwapTable(srcTable, tgtTable): the two tables exchange contents
SwapTable(srcTable, tgtTable) == <<tgtTable, srcTable>>

\* insertFromTemp: insert into final select from staging
insertFromTemp(final, tmp) == Table(final.rows \o tmp.rows)

\* core.truncate_table
TruncateTable(t) == Table(<<>>)

KeysOf(rows) == {rows[i][1] : i \in 1..Len(rows)}

\* last staged row carrying key k
LastWithKey(rows, k) ==
  rows[CHOOSE i \in 1..Len(rows) :
         /\ rows[i][1] = k
         /\ \A j \in 1..Len(rows) : rows[j][1] = k => j <= i]

\* the staged rows inserted without a look at the key
Upsert_InsertOnly(final, tmp) == Table(final.rows \o tmp.rows)

\* GenerateUpsertSQL: merge into tgt using src on pk: matched rows are updated,
\* every unmatched source row is inserted
Upsert(final, tmp) ==
  LET updated == [i \in 1..Len(final.rows) |->
                    IF final.rows[i][1] \in KeysOf(tmp.rows)
                    THEN LastWithKey(tmp.rows, final.rows[i][1])
                    ELSE final.rows[i]]
      fresh(r) == r[1] \notin KeysOf(final.rows)
  IN Table(updated \o SelectSeq(tmp.rows, fresh))

\* ------------------------------------------------------------- WriteToDb
cfg == <<hasPK, AddNewColumns, adjustColumnType, dfColumns, srcRows>>

env == <<allowEmptyTables, errorOnChecksumFailure>>

\* operations on the final table, as they appear in ops
SchemaOps == {"add_columns", "optimize"}
MergeOps == {"insert", "truncate", "upsert"}
FinalTableOps == {"pre_sql", "drop_final", "create_final", "post_sql"}
                   \cup SchemaOps \cup MergeOps
CommitOps == {"commit_stg", "commit_merge"}

InitWriteOf(modes) ==
  /\ pc = "start" /\ returned = FALSE
  /\ Mode \in modes
  /\ hasPK \in IF Mode = BackfillMode THEN {TRUE} ELSE BOOLEAN
  /\ AddNewColumns \in BOOLEAN
  /\ adjustColumnType \in BOOLEAN
  /\ dfColumns \in {0, 2}
  /\ srcRows \in SeqsUpTo(Keys \X Vals, MaxRows)
  /\ allowEmptyTables = FALSE
  /\ errorOnChecksumFailure = FALSE
  /\ checksum = "none"
  /\ cnt = 0 /\ tCnt = 0 /\ err = FALSE /\ errCtx = <<>> /\ dfErr = FALSE
  /\ tmpTable \in {NoTable, Table(<<>>), Table(OldRows(1))}
  /\ finalTable \in {NoTable} \cup {Table(OldRows(n)) : n \in 0..Cardinality(Keys)}
  /\ tx = "none" /\ txSnap = NoTable /\ created = FALSE
  /\ ops = <<>> /\ cleanupTasks = <<>> /\ cleanupRan = FALSE

\* the state WriteToDb is called in, with a mode the Config validation accepts
InitWrite == InitWriteOf(Modes)

At(p) == pc = p /\ ~returned

\* the context of an error returned at position p, abstracted to the position;
\* the failed import's is ImportErrorContext
ErrorContext(p, e) == IF e THEN <<"error at", p>> ELSE <<>>

\* the deferred rollback forgotten
Return_NoRollback(e, newOps) ==
  /\ returned' = TRUE
  /\ pc' = pc
  /\ err' = e
  /\ errCtx' = ErrorContext(pc, e)
  /\ tx' = tx
  /\ finalTable' = finalTable
  /\ ops' = newOps

\* a return of WriteToDb with error e after the calls in newOps: the deferred
\* tgtConn.Rollback() undoes the merge transaction when it is still open
Return(e, newOps) ==
  /\ returned' = TRUE
  /\ pc' = pc
  /\ err' = e
  /\ errCtx' = ErrorContext(pc, e)
  /\ tx' = "none"
  /\ finalTable' = IF tx = "merge" THEN txSnap ELSE finalTable
  /\ ops' = IF tx = "merge" THEN Append(newOps, "rollback") ELSE newOps

\* a member stream, or a goroutine of the import, captures an error in the
\* Dataflow's context (df.Context.CaptureErr), which cancels df.Context.Ctx
StreamError ==
  /\ ~returned
  /\ ~dfErr
  /\ dfErr' = TRUE
  /\ UNCHANGED <<wvars, svars, dvars, mvars, cvars, evars>>

\* an empty mode taken for truncate
DefaultMode_Truncate(mode) == IF mode = "" THEN TruncateMode ELSE mode

\* if cfg.Mode == "" { cfg.Mode = FullRefreshMode }
DefaultMode(mode) == IF mode = "" THEN FullRefreshMode ELSE mode

\* the Dataflow's columns not looked at: the staging steps are entered
CheckColumns_Unchecked ==
  /\ At("start")
  /\ Mode' = DefaultMode(Mode)
  /\ pc' = "drop_tmp"
  /\ UNCHANGED <<returned, err, errCtx, tx, finalTable, ops>>
  /\ UNCHANGED <<cfg, env, checksum, cnt, tCnt, dfErr, tmpTable, txSnap, created,
                 cleanupTasks, cleanupRan, svars, dvars, mvars, cvars, evars>>

\* no columns; staging table name; default mode
CheckColumns ==
  /\ At("start")
  /\ \/ /\ dfColumns = 0
        /\ Return(TRUE, ops)
        /\ UNCHANGED Mode
     \/ /\ dfColumns # 0
        /\ \E parsed \in BOOLEAN :
             IF parsed
             THEN /\ Mode' = DefaultMode(Mode)
                  /\ pc' = "drop_tmp"
                  /\ UNCHANGED <<returned, err, errCtx, tx, finalTable, ops>>
             ELSE Return(TRUE, ops) /\ UNCHANGED Mode
  /\ UNCHANGED <<cfg, env, checksum, cnt, tCnt, dfErr, tmpTable, txSnap, created,
                 cleanupTasks, cleanupRan, svars, dvars, mvars, cvars, evars>>

\* tgtConn.DropTable(cfg.Target.Options.TableTmp)
DropTmp ==
  /\ At("drop_tmp")
  /\ \E ok \in BOOLEAN :
       IF ok
       THEN /\ tmpTable' = DropTable(tmpTable)
            /\ ops' = Append(ops, "drop_tmp")
            /\ pc' = "pause"
            /\ UNCHANGED <<returned, err, errCtx, tx, finalTable>>
       ELSE Return(TRUE, Append(ops, "drop_tmp")) /\ UNCHANGED tmpTable
  /\ UNCHANGED <<Mode, cfg, env, checksum, cnt, tCnt, dfErr, txSnap, created, cleanupTasks,
                 cleanupRan, svars, dvars, mvars, cvars, evars>>

\* df.Pause(); on failure err = g.Error(err, ...) wraps a nil error: what is
\* returned then is decided outside this function
PauseDf ==
  /\ At("pause")
  /\ \E paused \in BOOLEAN :
       IF paused
       THEN pc' = "create_tmp" /\ UNCHANGED <<returned, err, errCtx, tx, finalTable, ops>>
       ELSE \E e \in BOOLEAN : Return(e, ops)
  /\ UNCHANGED <<Mode, cfg, env, checksum, cnt, tCnt, dfErr, tmpTable, txSnap, created,
                 cleanupTasks, cleanupRan, svars, dvars, mvars, cvars, evars>>

\* the member streams are paused: df.Pause() returned true at line 142 and
\* df.Unpause(), the first statement of the import step, was not reached
StreamsPaused == pc \in {"create_tmp", "begin_stg"} \/ (pc = "import" /\ ~returned)

\* table DDL check, createTableIfNotExists of the staging table, AddCleanupTask
CreateTmp ==
  /\ At("create_tmp")
  /\ \E ddlOk \in BOOLEAN, ok \in BOOLEAN :
       IF ~ddlOk
       THEN Return(TRUE, ops) /\ UNCHANGED <<tmpTable, cleanupTasks>>
       ELSE IF ~ok
       THEN Return(TRUE, Append(ops, "create_tmp")) /\ UNCHANGED <<tmpTable, cleanupTasks>>
       ELSE /\ tmpTable' = createTableIfNotExists(tmpTable)[2]
            /\ cleanupTasks' = Append(cleanupTasks, "drop_tmp")
            /\ ops' = Append(ops, "create_tmp")
            /\ pc' = "begin_stg"
            /\ UNCHANGED <<returned, err, errCtx, tx, finalTable>>
  /\ UNCHANGED <<Mode, cfg, env, checksum, cnt, tCnt, dfErr, txSnap, created, cleanupRan, svars, dvars, mvars, cvars, evars>>

\* tgtConn.BeginContext(df.Context.Ctx): a cancelled context opens no transaction
BeginContext(ok) == ok /\ ~dfErr

BeginStaging ==
  /\ At("begin_stg")
  /\ \E ok \in BOOLEAN :
       IF BeginContext(ok)
       THEN /\ tx' = "staging"
            /\ ops' = Append(ops, "begin_stg")
            /\ pc' = "import"
            /\ UNCHANGED <<returned, err, errCtx, finalTable>>
       ELSE Return(TRUE, Append(ops, "begin_stg"))
  /\ UNCHANGED <<Mode, cfg, env, checksum, cnt, tCnt, dfErr, tmpTable, txSnap, created,
                 cleanupTasks, cleanupRan, svars, dvars, mvars, cvars, evars>>

\* the cause returned as it came, without the phase
ImportErrorContext_Bare(dot) == <<>>

\* g.Error(err, "could not insert into "+TableTmp), with a full stop when
\* SLING_CLI is set and the source is a file
ImportErrorContext(dot) ==
  IF dot THEN <<"could not insert into ", "TableTmp", ".">>
  ELSE <<"could not insert into ", "TableTmp">>

\* the count read before the staging transaction is committed
AfterBulkImport_NoCommit == "verify"

\* position after a successful BulkImportFlow: tgtConn.Commit()
AfterBulkImport == "commit_stg"

\* callbacks set, df.Unpause(), tgtConn.BulkImportFlow: n rows reported, the
\* first m rows landed; on error tgtConn.Rollback() and return
BulkImport ==
  /\ At("import")
  /\ \E ok \in BOOLEAN, n \in 0..Len(srcRows), m \in 0..Len(srcRows) :
       IF ok /\ ~dfErr
       THEN /\ cnt' = n
            /\ tmpTable' = Table(SubSeq(srcRows, 1, m))
            /\ ops' = Append(ops, "import")
            /\ pc' = AfterBulkImport
            /\ UNCHANGED <<returned, err, errCtx, tx, finalTable>>
       ELSE /\ cnt' = n
            /\ tmpTable' = Table(<<>>)
            /\ tx' = "none"
            /\ ops' = ops \o <<"import", "rollback">>
            /\ returned' = TRUE
            /\ err' = TRUE
            /\ \E cli \in BOOLEAN, file \in BOOLEAN :
                 errCtx' = ImportErrorContext(cli /\ file)
            /\ UNCHANGED <<pc, finalTable>>
  /\ UNCHANGED <<Mode, cfg, env, checksum, tCnt, dfErr, txSnap, created, cleanupTasks,
                 cleanupRan, svars, dvars, mvars, cvars, evars>>

\* tgtConn.Commit() of the staging transaction; its result is not looked at
CommitStaging ==
  /\ At("commit_stg")
  /\ \E ok \in BOOLEAN :
       /\ tmpTable' = IF ok THEN tmpTable ELSE Table(<<>>)
       /\ tx' = "none"
       /\ ops' = Append(ops, "commit_stg")
       /\ pc' = "verify"
       /\ UNCHANGED returned
  /\ UNCHANGED <<Mode, cfg, env, checksum, cnt, tCnt, err, errCtx, dfErr, finalTable, txSnap, created,
                 cleanupTasks, cleanupRan, svars, dvars, mvars, cvars, evars>>

\* len(sampleData.Rows): df.Buffer holds the first rows of the stream, within
\* these bounds all of them
sampleRows == Len(srcRows)

\* only missing records detected
CountMismatch_OnlyMissing(c, t) == c > t

\* cnt != tCnt
CountMismatch(c, t) == c # t

\* tCnt, _ := tgtConn.GetCount(TableTmp) and the two checks on it
VerifyCount ==
  /\ At("verify")
  /\ \E got \in BOOLEAN :
       LET t == IF got THEN Len(tmpTable.rows) ELSE 0 IN
       /\ tCnt' = t
       /\ IF CountMismatch(cnt, t) \/ (t = 0 /\ sampleRows > 0)
          THEN Return(TRUE, Append(ops, "get_count"))
          ELSE /\ ops' = Append(ops, "get_count")
               /\ pc' = "pre_sql"
               /\ UNCHANGED <<returned, err, errCtx, tx, finalTable>>
  /\ UNCHANGED <<Mode, cfg, env, checksum, cnt, dfErr, tmpTable, txSnap, created, cleanupTasks,
                 cleanupRan, svars, dvars, mvars, cvars, evars>>

\* cfg.Target.Options.PreSQL: getSQLText, GetFormatMap, tgtConn.ExecMulti
PreSQL ==
  /\ At("pre_sql")
  /\ \E preSQL \in BOOLEAN, text \in BOOLEAN, ok \in BOOLEAN :
       IF ~preSQL
       THEN pc' = "empty_check" /\ UNCHANGED <<returned, err, errCtx, tx, finalTable, ops>>
       ELSE IF ~text
       THEN Return(TRUE, ops)
       ELSE IF ~ok
       THEN Return(TRUE, Append(ops, "pre_sql"))
       ELSE /\ ops' = Append(ops, "pre_sql")
            /\ pc' = "empty_check"
            /\ UNCHANGED <<returned, err, errCtx, tx, finalTable>>
  /\ UNCHANGED <<Mode, cfg, env, checksum, cnt, tCnt, dfErr, tmpTable, txSnap, created,
                 cleanupTasks, cleanupRan, svars, dvars, mvars, cvars, evars>>

\* the row count up to which checksums are compared
ChecksumLimit == 10000

\* the negation of the override dropped
NothingToDo_Inverted(c, allow) == c = 0 /\ allow

\* cnt == 0 && !cast.ToBool(os.Getenv("SLING_ALLOW_EMPTY_TABLES"))
NothingToDo(c, allow) == c = 0 /\ ~allow

\* every failed comparison returned, strict or not
ChecksumAborts_Always(same, strict) == ~same

\* err != nil from CompareChecksums and os.Getenv("ERROR_ON_CHECKSUM_FAILURE") != ""
ChecksumAborts(same, strict) == ~same /\ strict

\* nothing to do on zero rows unless SLING_ALLOW_EMPTY_TABLES; else
\* SyncColumns, SyncStats, CompareChecksums, ERROR_ON_CHECKSUM_FAILURE
CheckEmpty ==
  /\ At("empty_check")
  /\ \E allow \in BOOLEAN, same \in BOOLEAN, strict \in BOOLEAN :
       /\ allowEmptyTables' = (cnt = 0 /\ allow)
       /\ IF NothingToDo(cnt, allow)
          THEN /\ Return(FALSE, ops)
               /\ UNCHANGED <<checksum, errorOnChecksumFailure>>
          ELSE IF cnt > 0 /\ Len(srcRows) <= ChecksumLimit
          THEN /\ checksum' = IF same THEN "passed" ELSE "failed"
               /\ errorOnChecksumFailure' = (~same /\ strict)
               /\ IF ChecksumAborts(same, strict)
                  THEN Return(TRUE, Append(ops, "checksum"))
                  ELSE /\ ops' = Append(ops, "checksum")
                       /\ pc' = "begin_merge"
                       /\ UNCHANGED <<returned, err, errCtx, tx, finalTable>>
          ELSE /\ pc' = "begin_merge"
               /\ UNCHANGED <<checksum, errorOnChecksumFailure, returned, err, errCtx, tx,
                              finalTable, ops>>
  /\ UNCHANGED <<Mode, cfg, cnt, tCnt, dfErr, tmpTable, txSnap, created,
                 cleanupTasks, cleanupRan, svars, dvars, mvars, cvars, evars>>

\* tgtConn.BeginContext(df.Context.Ctx, &txOptions); defer tgtConn.Rollback()
BeginMerge ==
  /\ At("begin_merge")
  /\ \E ok \in BOOLEAN :
       IF BeginContext(ok)
       THEN /\ tx' = "merge"
            /\ txSnap' = finalTable
            /\ ops' = Append(ops, "begin_merge")
            /\ pc' = "drop_final"
            /\ UNCHANGED <<returned, err, errCtx, finalTable>>
       ELSE Return(TRUE, Append(ops, "begin_merge")) /\ UNCHANGED txSnap
  /\ UNCHANGED <<Mode, cfg, env, checksum, cnt, tCnt, dfErr, tmpTable, created,
                 cleanupTasks, cleanupRan, svars, dvars, mvars, cvars, evars>>

\* snapshot mode dropping the final table as full-refresh does
DropsFinal_Snapshot(mode) == mode \in {FullRefreshMode, SnapshotMode}

\* the drop forgotten
DropsFinal_Never(mode) == FALSE

\* cfg.Mode == FullRefreshMode
DropsFinal(mode) == mode = FullRefreshMode

\* full-refresh: tgtConn.DropTable(targetTable)
DropFinal ==
  /\ At("drop_final")
  /\ IF DropsFinal(Mode)
     THEN \E ok \in BOOLEAN :
            IF ok
            THEN /\ finalTable' = DropTable(finalTable)
                 /\ ops' = Append(ops, "drop_final")
                 /\ pc' = "create_final"
                 /\ UNCHANGED <<returned, err, errCtx, tx>>
            ELSE Return(TRUE, Append(ops, "drop_final"))
     ELSE pc' = "create_final" /\ UNCHANGED <<returned, err, errCtx, tx, finalTable, ops>>
  /\ UNCHANGED <<Mode, cfg, env, checksum, cnt, tCnt, dfErr, tmpTable, txSnap, created,
                 cleanupTasks, cleanupRan, svars, dvars, mvars, cvars, evars>>

\* !created && cfg.Mode != FullRefreshMode
AdjustsSchema(c, mode) == ~c /\ mode # FullRefreshMode

\* createTableIfNotExists of the final table, ParseTableName
CreateFinal ==
  /\ At("create_final")
  /\ \E ok \in BOOLEAN, parsed \in BOOLEAN :
       LET res == createTableIfNotExists(finalTable) IN
       IF ~ok
       THEN Return(TRUE, Append(ops, "create_final")) /\ UNCHANGED created
       ELSE IF ~parsed
       THEN Return(TRUE, Append(ops, "create_final")) /\ created' = res[1]
       ELSE /\ created' = res[1]
            /\ finalTable' = res[2]
            /\ ops' = Append(ops, "create_final")
            /\ pc' = IF AdjustsSchema(res[1], Mode) THEN "add_columns" ELSE "merge"
            /\ UNCHANGED <<returned, err, errCtx, tx>>
  /\ UNCHANGED <<Mode, cfg, env, checksum, cnt, tCnt, dfErr, tmpTable, txSnap,
                 cleanupTasks, cleanupRan, svars, dvars, mvars, cvars, evars>>

\* database.AddMissingColumns on the final table, pullTargetTableColumns
AddMissingColumns ==
  /\ At("add_columns")
  /\ IF AddNewColumns
     THEN \E ok \in BOOLEAN :
            IF ok
            THEN /\ ops' = Append(ops, "add_columns")
                 /\ pc' = "optimize"
                 /\ UNCHANGED <<returned, err, errCtx, tx, finalTable>>
            ELSE Return(TRUE, Append(ops, "add_columns"))
     ELSE pc' = "optimize" /\ UNCHANGED <<returned, err, errCtx, tx, finalTable, ops>>
  /\ UNCHANGED <<Mode, cfg, env, checksum, cnt, tCnt, dfErr, tmpTable, txSnap, created,
                 cleanupTasks, cleanupRan, svars, dvars, mvars, cvars, evars>>

\* pullTargetTableColumns, tgtConn.OptimizeTable on the final table
OptimizeTable ==
  /\ At("optimize")
  /\ IF adjustColumnType
     THEN \E pulled \in BOOLEAN, ok \in BOOLEAN :
            IF ~pulled
            THEN Return(TRUE, ops)
            ELSE IF ok
            THEN /\ ops' = Append(ops, "optimize")
                 /\ pc' = "merge"
                 /\ UNCHANGED <<returned, err, errCtx, tx, finalTable>>
            ELSE Return(TRUE, Append(ops, "optimize"))
     ELSE pc' = "merge" /\ UNCHANGED <<returned, err, errCtx, tx, finalTable, ops>>
  /\ UNCHANGED <<Mode, cfg, env, checksum, cnt, tCnt, dfErr, tmpTable, txSnap, created,
                 cleanupTasks, cleanupRan, svars, dvars, mvars, cvars, evars>>

\* truncate mode taken into the branch of the plain insert
Strategy_NoTruncate(mode, pk, n) ==
  IF n = 0 THEN "nothing"
  ELSE IF mode \in {IncrementalMode, BackfillMode} /\ pk THEN "upsert"
  ELSE "insert"

\* the primary key not looked at: incremental always upserts
Strategy_IgnoresKey(mode, pk, n) ==
  IF n = 0 THEN "nothing"
  ELSE IF mode = SnapshotMode \/ mode = FullRefreshMode THEN "insert"
  ELSE IF mode = TruncateMode THEN "truncate"
  ELSE "upsert"

\* the count not looked at: a statement is issued for an empty staging table
Strategy_IgnoresCount(mode, pk, n) ==
  IF (mode = IncrementalMode /\ ~pk) \/ mode = SnapshotMode \/ mode = FullRefreshMode
  THEN "insert"
  ELSE IF mode = TruncateMode THEN "truncate"
  ELSE "upsert"

\* the branch of "Put data from tmp to final" taken for a mode
Strategy(mode, pk, n) ==
  IF n = 0 THEN "nothing"
  ELSE IF mode = "drop (need to optimize temp table in place)" THEN "swap"
  ELSE IF (mode = IncrementalMode /\ ~pk) \/ mode = SnapshotMode \/ mode = FullRefreshMode
  THEN "insert"
  ELSE IF mode = TruncateMode THEN "truncate"
  ELSE IF mode = IncrementalMode \/ mode = BackfillMode THEN "upsert"
  ELSE "nothing"

\* schema adjustments entered again after the merge statement
AfterMerge_Adjust == "add_columns"

\* position after the merge statement: post SQL
AfterMerge == "post_sql"

\* Put data from tmp to final
Merge ==
  /\ At("merge")
  /\ LET strategy == Strategy(Mode, hasPK, cnt) IN
     \/ /\ strategy = "nothing"
        /\ pc' = AfterMerge
        /\ UNCHANGED <<returned, err, errCtx, tx, finalTable, ops, tmpTable>>
     \/ /\ strategy = "swap"
        /\ \E swapped \in BOOLEAN, dropped \in BOOLEAN :
             IF ~swapped
             THEN Return(TRUE, Append(ops, "swap")) /\ UNCHANGED tmpTable
             ELSE IF ~dropped
             THEN /\ Return(TRUE, ops \o <<"swap", "drop_swapped">>)
                  /\ UNCHANGED tmpTable
             ELSE /\ finalTable' = SwapTable(tmpTable, finalTable)[2]
                  /\ tmpTable' = DropTable(SwapTable(tmpTable, finalTable)[1])
                  /\ ops' = ops \o <<"swap", "drop_swapped">>
                  /\ pc' = AfterMerge
                  /\ UNCHANGED <<returned, err, errCtx, tx>>
     \/ /\ strategy = "insert"
        /\ UNCHANGED tmpTable
        /\ \E ok \in BOOLEAN :
             IF ok
             THEN /\ finalTable' = insertFromTemp(finalTable, tmpTable)
                  /\ ops' = Append(ops, "insert")
                  /\ pc' = AfterMerge
                  /\ UNCHANGED <<returned, err, errCtx, tx>>
             ELSE Return(TRUE, Append(ops, "insert"))
     \/ /\ strategy = "truncate"
        /\ UNCHANGED tmpTable
        /\ \E truncated \in BOOLEAN, ok \in BOOLEAN :
             IF ~truncated
             THEN Return(TRUE, Append(ops, "truncate"))
             ELSE IF ~ok
             THEN Return(TRUE, ops \o <<"truncate", "insert">>)
             ELSE /\ finalTable' = insertFromTemp(TruncateTable(finalTable), tmpTable)
                  /\ ops' = ops \o <<"truncate", "insert">>
                  /\ pc' = AfterMerge
                  /\ UNCHANGED <<returned, err, errCtx, tx>>
     \/ /\ strategy = "upsert"
        /\ UNCHANGED tmpTable
        /\ \E ok \in BOOLEAN :
             IF ok
             THEN /\ finalTable' = Upsert(finalTable, tmpTable)
                  /\ ops' = Append(ops, "upsert")
                  /\ pc' = AfterMerge
                  /\ UNCHANGED <<returned, err, errCtx, tx>>
             ELSE Return(TRUE, Append(ops, "upsert"))
  /\ UNCHANGED <<Mode, cfg, env, checksum, cnt, tCnt, dfErr, txSnap, created,
                 cleanupTasks, cleanupRan, svars, dvars, mvars, cvars, evars>>

\* cfg.Target.Options.PostSQL: getSQLText, GetFormatMap, tgtConn.ExecMulti
PostSQL ==
  /\ At("post_sql")
  /\ \E postSQL \in BOOLEAN, text \in BOOLEAN, ok \in BOOLEAN :
       IF ~postSQL
       THEN pc' = "commit" /\ UNCHANGED <<returned, err, errCtx, tx, finalTable, ops>>
       ELSE IF ~text
       THEN Return(TRUE, ops)
       ELSE IF ~ok
       THEN Return(TRUE, Append(ops, "post_sql"))
       ELSE /\ ops' = Append(ops, "post_sql")
            /\ pc' = "commit"
            /\ UNCHANGED <<returned, err, errCtx, tx, finalTable>>
  /\ UNCHANGED <<Mode, cfg, env, checksum, cnt, tCnt, dfErr, tmpTable, txSnap, created,
                 cleanupTasks, cleanupRan, svars, dvars, mvars, cvars, evars>>

\* err = tgtConn.Commit() of the merge transaction
CommitMerge ==
  /\ At("commit")
  /\ \E ok \in BOOLEAN :
       IF ok
       THEN /\ tx' = "none"
            /\ ops' = Append(ops, "commit_merge")
            /\ pc' = "df_err"
            /\ UNCHANGED <<returned, err, errCtx, finalTable>>
       ELSE Return(TRUE, Append(ops, "commit_merge"))
  /\ UNCHANGED <<Mode, cfg, env, checksum, cnt, tCnt, dfErr, tmpTable, txSnap, created,
                 cleanupTasks, cleanupRan, svars, dvars, mvars, cvars, evars>>

\* err = df.Err(); return
ReturnDfErr ==
  /\ At("df_err")
  /\ Return(dfErr, ops)
  /\ UNCHANGED <<Mode, cfg, env, checksum, cnt, tCnt, dfErr, tmpTable, txSnap, created,
                 cleanupTasks, cleanupRan, svars, dvars, mvars, cvars, evars>>

\* the task registered at AddCleanupTask: conn.DropTable(TableTmp) when a
\* connection can be had
CleanupTask(t, connected) == IF connected THEN DropTable(t) ELSE t

\* the run's registered cleanup tasks are executed after WriteToDb returned
RunCleanupTasks ==
  /\ returned
  /\ ~cleanupRan
  /\ cleanupRan' = TRUE
  /\ \E connected \in BOOLEAN :
       tmpTable' = IF cleanupTasks = <<>> THEN tmpTable
                   ELSE CleanupTask(tmpTable, connected)
  /\ UNCHANGED <<pc, returned, Mode, cfg, env, checksum, cnt, tCnt, err, errCtx, dfErr,
                 finalTable, tx, txSnap, created, ops, cleanupTasks, svars, dvars, mvars, cvars, evars>>

WriteNext ==
  \/ StreamError
  \/ CheckColumns
  \/ DropTmp
  \/ PauseDf
  \/ CreateTmp
  \/ BeginStaging
  \/ BulkImport
  \/ CommitStaging
  \/ VerifyCount
  \/ PreSQL
  \/ CheckEmpty
  \/ BeginMerge
  \/ DropFinal
  \/ CreateFinal
  \/ AddMissingColumns
  \/ OptimizeTable
  \/ Merge
  \/ PostSQL
  \/ CommitMerge
  \/ ReturnDfErr
  \/ RunCleanupTasks

InitStageIdle ==
  /\ spc = "idle" /\ wpc = "idle" /\ hpc = "idle"
  /\ fileReadyChn = 0 /\ chnClosed = FALSE /\ filesMade = 0
  /\ ctxWg = 0 /\ connWg = 0 /\ mux = "free" /\ ctxErr = FALSE
  /\ events = 0 /\ copied = FALSE /\ stageRet = "none" /\ adjustProp = FALSE
  /\ deferred = <<>> /\ cleaned = <<>>
  /\ stageErr = FALSE /\ putStored = 0 /\ putFailed = FALSE

\* no column event
NoEvent == [kind |-> "none", pos |-> 0, name |-> "", type |-> ""]

\* the columns are not looked at
InitSchemaIdle ==
  /\ epc = "idle"
  /\ dfCols = <<>> /\ tmpCols = <<>> /\ finCols = <<>> /\ tgtColumns = <<>>
  /\ TableDDL = <<>> /\ tmpData = <<>> /\ ddl = <<>>
  /\ event = NoEvent /\ lastEvent = NoEvent /\ handled = 0

\* main is not being followed
InitMainIdle ==
  /\ mainpc = "idle" /\ cmdpc = "idle" /\ CliObjName = "" /\ ScUsed = FALSE
  /\ interruptCh = 0 /\ killCh = 0 /\ exitCode = 11 /\ interrupted = FALSE
  /\ cancels = 0 /\ exitStatus = -1

\* no decimal is converted
InitDecimalIdle ==
  /\ dpc = "idle" /\ decValStr = <<>> /\ decScale = 0 /\ decLength = -1
  /\ decValBytes = <<>> /\ decOut = <<>>

\* a name of n characters
NameOf(n) == [i \in 1..n |-> "t"]

\* the staging table's name is TableTmp throughout; how it is made is NameSpec's
InitNameIdle ==
  /\ Object = [schema |-> "public", name |-> NameOf(1)]
  /\ connType = "postgres"
  /\ TableTmpOpt = <<>>
  /\ TableTmp = <<>>

\* the Config as WriteToDb needs it is in cfg and Mode; the rest is left alone
InitConfigIdle ==
  /\ InitNameIdle
  /\ called = <<>>
  /\ Mode0 = Mode
  /\ UpdateKey = "" /\ srcType = "db" /\ tgtType = "db"
  /\ srcStreamProvided = TRUE /\ tgtPostSQL = FALSE /\ Range = <<>>
  /\ MetadataLoadedAt = FALSE /\ loadedAtColumn = ""
  /\ Type = "" /\ cfgErr = FALSE
  /\ rangeArr = <<>> /\ readRet = "none"

Init == InitWrite /\ InitStageIdle /\ InitDecimalIdle /\ InitMainIdle /\ InitConfigIdle /\ InitSchemaIdle

Next == WriteNext

Spec == Init /\ [][Next]_vars

\* ------------------------------------------------------------- CopyViaStage
\* WriteToDb stands in its call of BulkImportFlow; the staging table is empty
InitStage ==
  /\ pc = "import" /\ returned = FALSE
  /\ Mode = FullRefreshMode
  /\ hasPK = FALSE
  /\ AddNewColumns \in BOOLEAN
  /\ adjustColumnType \in BOOLEAN
  /\ dfColumns = 2
  /\ srcRows = <<>>
  /\ allowEmptyTables = FALSE /\ errorOnChecksumFailure = FALSE /\ checksum = "none"
  /\ cnt = 0 /\ tCnt = 0 /\ err = FALSE /\ errCtx = <<>> /\ dfErr = FALSE
  /\ tmpTable = Table(<<>>)
  /\ finalTable = NoTable
  /\ tx = "staging" /\ txSnap = NoTable /\ created = FALSE
  /\ ops = <<"drop_tmp", "create_tmp", "begin_stg">>
  /\ cleanupTasks = <<"drop_tmp">> /\ cleanupRan = FALSE
  /\ spc = "start" /\ wpc = "idle" /\ hpc = "idle"
  /\ fileReadyChn = 0 /\ chnClosed = FALSE /\ filesMade = 0
  /\ ctxWg = 0 /\ connWg = 0 /\ mux = "free" /\ ctxErr = FALSE
  /\ events = 0 /\ copied = FALSE /\ stageRet = "none"
  /\ adjustProp \in BOOLEAN
  /\ deferred = <<>> /\ cleaned = <<>>
  /\ stageErr = FALSE /\ putStored = 0 /\ putFailed = FALSE
  /\ InitConfigIdle /\ InitSchemaIdle /\ InitDecimalIdle /\ InitMainIdle

\* df.CleanUp: the actions registered by df.Defer run, the last one first
CleanUp(fns) == [i \in 1..Len(fns) |-> fns[Len(fns) + 1 - i]]

\* BulkImportFlow wraps df.OnColumnChanged when adjust_column_type is set
Wrapped == adjustProp

\* the wait group the OnColumnChanged wrapper waits on: conn.Context().Wg.Write
HandlerQueueSize == connWg

\* BulkImportFlow and CopyViaStage check the props and the table name and
\* return on an error, running the deferred df.CleanUp(); else
\* df.Defer(os.RemoveAll(folderPath)) and the local file writer goroutine is
\* started
CopyViaStageStart ==
  /\ spc = "start"
  /\ \E props \in BOOLEAN :
       IF props
       THEN /\ spc' = "remove" /\ wpc' = "new_fs"
            /\ deferred' = Append(deferred, "RemoveAll folderPath")
            /\ UNCHANGED <<stageRet, cleaned>>
       ELSE /\ spc' = "returned" /\ stageRet' = "error"
            /\ cleaned' = CleanUp(deferred)
            /\ UNCHANGED <<wpc, deferred>>
  /\ UNCHANGED <<cvars, evars, dvars, mvars, wvars, stageErr, putStored, putFailed, dfErr, hpc, fileReadyChn, chnClosed, filesMade, ctxWg, connWg,
                 mux, ctxErr, events, copied, adjustProp>>

\* conn.Exec("REMOVE " + stageFolderPath): on an error return, running the
\* deferred df.CleanUp(); else df.Defer(REMOVE stageFolderPath)
StageRemove ==
  /\ spc = "remove"
  /\ \E ok \in BOOLEAN :
       IF ok
       THEN /\ spc' = "loop"
            /\ deferred' = Append(deferred, "REMOVE stageFolderPath")
            /\ UNCHANGED <<stageRet, cleaned>>
       ELSE /\ spc' = "returned" /\ stageRet' = "error"
            /\ cleaned' = CleanUp(deferred)
            /\ UNCHANGED deferred
  /\ UNCHANGED <<cvars, evars, dvars, mvars, wvars, stageErr, putStored, putFailed, dfErr, wpc, hpc, fileReadyChn, chnClosed, filesMade, ctxWg,
                 connWg, mux, ctxErr, events, copied, adjustProp>>

\* writer goroutine: filesys.NewFileSysClient; on error CaptureErr and return
WriterNewFs ==
  /\ wpc = "new_fs"
  /\ \E ok \in BOOLEAN :
       IF ok
       THEN wpc' = "writing" /\ UNCHANGED dfErr
       ELSE wpc' = "exit" /\ dfErr' = TRUE
  /\ UNCHANGED <<cvars, evars, dvars, mvars, wvars, stageErr, putStored, putFailed, spc, hpc, fileReadyChn, chnClosed, filesMade, ctxWg, connWg,
                 mux, ctxErr, events, copied, stageRet, adjustProp, deferred, cleaned>>

\* fs.WriteDataflowReady makes a file ready on fileReadyChn
WriterFileReady ==
  /\ wpc = "writing"
  /\ hpc = "idle"
  /\ filesMade < MaxFiles
  /\ filesMade' = filesMade + 1
  /\ fileReadyChn' = fileReadyChn + 1
  /\ UNCHANGED <<cvars, evars, dvars, mvars, wvars, stageErr, putStored, putFailed, dfErr, spc, wpc, hpc, chnClosed, ctxWg, connWg, mux, ctxErr,
                 events, copied, stageRet, adjustProp, deferred, cleaned>>

\* fs.WriteDataflowReady returns, with or without error, closing fileReadyChn
WriterReturn ==
  /\ wpc = "writing"
  /\ hpc = "idle"
  /\ chnClosed' = TRUE
  /\ \E failed \in BOOLEAN : wpc' = IF failed THEN "failed" ELSE "exit"
  /\ UNCHANGED <<cvars, evars, dvars, mvars, wvars, stageErr, putStored, putFailed, dfErr, spc, hpc, fileReadyChn, filesMade, ctxWg, connWg, mux,
                 ctxErr, events, copied, stageRet, adjustProp, deferred, cleaned>>

\* df.Context.CaptureErr("Error writing dataflow to disk")
WriterCaptureErr ==
  /\ wpc = "failed"
  /\ wpc' = "exit"
  /\ dfErr' = TRUE
  /\ UNCHANGED <<cvars, evars, dvars, mvars, wvars, stageErr, putStored, putFailed, spc, hpc, fileReadyChn, chnClosed, filesMade, ctxWg, connWg,
                 mux, ctxErr, events, copied, stageRet, adjustProp, deferred, cleaned>>

\* a producer meets a widened column type and calls df.OnColumnChanged
ColumnChanged ==
  /\ wpc = "writing"
  /\ hpc = "idle"
  /\ events < MaxEvents
  /\ adjustColumnType
  /\ hpc' = IF Wrapped THEN "chg_lock" ELSE "chg_alter"
  /\ UNCHANGED <<cvars, evars, dvars, mvars, wvars, stageErr, putStored, putFailed, dfErr, spc, wpc, fileReadyChn, chnClosed, filesMade, ctxWg,
                 connWg, mux, ctxErr, events, copied, stageRet, adjustProp, deferred, cleaned>>

\* wrapper: conn.Mux.Lock()
HandlerLock ==
  /\ hpc = "chg_lock"
  /\ mux = "free"
  /\ mux' = "handler"
  /\ hpc' = "chg_wait"
  /\ UNCHANGED <<cvars, evars, dvars, mvars, wvars, stageErr, putStored, putFailed, dfErr, spc, wpc, fileReadyChn, chnClosed, filesMade, ctxWg,
                 connWg, ctxErr, events, copied, stageRet, adjustProp, deferred, cleaned>>

\* wrapper: if the queue size is positive, Wait() until it is zero
HandlerWait ==
  /\ hpc = "chg_wait"
  /\ HandlerQueueSize = 0
  /\ hpc' = "chg_alter"
  /\ UNCHANGED <<cvars, evars, dvars, mvars, wvars, stageErr, putStored, putFailed, dfErr, spc, wpc, fileReadyChn, chnClosed, filesMade, ctxWg,
                 connWg, mux, ctxErr, events, copied, stageRet, adjustProp, deferred, cleaned>>

\* the handler set by WriteToDb: GetColumns and OptimizeTable on the staging
\* table; the wrapper's deferred conn.Mux.Unlock()
ColumnChangedAlter ==
  /\ hpc = "chg_alter"
  /\ \E ok \in BOOLEAN : dfErr' = (dfErr \/ ~ok)
  /\ mux' = IF mux = "handler" THEN "free" ELSE mux
  /\ hpc' = "idle"
  /\ events' = events + 1
  /\ UNCHANGED <<cvars, evars, dvars, mvars, wvars, stageErr, putStored, putFailed, spc, wpc, fileReadyChn, chnClosed, filesMade, ctxWg, connWg,
                 ctxErr, copied, stageRet, adjustProp, deferred, cleaned>>

\* a producer meets a new column and calls df.OnColumnAdded
ColumnAdded ==
  /\ wpc = "writing"
  /\ hpc = "idle"
  /\ events < MaxEvents
  /\ AddNewColumns
  /\ hpc' = "add_alter"
  /\ UNCHANGED <<cvars, evars, dvars, mvars, wvars, stageErr, putStored, putFailed, dfErr, spc, wpc, fileReadyChn, chnClosed, filesMade, ctxWg,
                 connWg, mux, ctxErr, events, copied, stageRet, adjustProp, deferred, cleaned>>

\* the handler set by WriteToDb: AddMissingColumns on the staging table,
\* pullTargetTempTableColumns
ColumnAddedAlter ==
  /\ hpc = "add_alter"
  /\ \E ok \in BOOLEAN : dfErr' = (dfErr \/ ~ok)
  /\ hpc' = "idle"
  /\ events' = events + 1
  /\ UNCHANGED <<cvars, evars, dvars, mvars, wvars, stageErr, putStored, putFailed, spc, wpc, fileReadyChn, chnClosed, filesMade, ctxWg, connWg,
                 mux, ctxErr, copied, stageRet, adjustProp, deferred, cleaned>>

\* for file := range fileReadyChn; df.Err() != nil || context.Err() != nil: break
LoopReceive ==
  /\ spc = "loop"
  /\ \/ /\ fileReadyChn > 0
        /\ fileReadyChn' = fileReadyChn - 1
        /\ spc' = IF dfErr \/ ctxErr THEN "wait" ELSE "lock"
     \/ /\ fileReadyChn = 0
        /\ chnClosed
        /\ spc' = "wait"
        /\ UNCHANGED fileReadyChn
  /\ UNCHANGED <<cvars, evars, dvars, mvars, wvars, stageErr, putStored, putFailed, dfErr, wpc, hpc, chnClosed, filesMade, ctxWg, connWg, mux,
                 ctxErr, events, copied, stageRet, adjustProp, deferred, cleaned>>

\* conn.Mux.Lock()
LoopLock ==
  /\ spc = "lock"
  /\ mux = "free"
  /\ mux' = "loop"
  /\ spc' = "put"
  /\ UNCHANGED <<cvars, evars, dvars, mvars, wvars, stageErr, putStored, putFailed, dfErr, wpc, hpc, fileReadyChn, chnClosed, filesMade, ctxWg,
                 connWg, ctxErr, events, copied, stageRet, adjustProp, deferred, cleaned>>

\* context.Wg.Write.Add(); go doPutDone(file); conn.Mux.Unlock()
LoopPut ==
  /\ spc = "put"
  /\ ctxWg' = ctxWg + 1
  /\ mux' = "free"
  /\ spc' = "loop"
  /\ UNCHANGED <<cvars, evars, dvars, mvars, wvars, stageErr, putStored, putFailed, dfErr, wpc, hpc, fileReadyChn, chnClosed, filesMade, connWg,
                 ctxErr, events, copied, stageRet, adjustProp, deferred, cleaned>>

\* doPut: err = conn.StagePUT(file.Node.URI, stageFolderPath), an assignment to
\* the result variable of CopyViaStage that all doPut goroutines share
PutStore ==
  /\ putStored < ctxWg
  /\ \E ok \in BOOLEAN :
       /\ stageErr' = ~ok
       /\ putFailed' = (putFailed \/ ~ok)
  /\ putStored' = putStored + 1
  /\ UNCHANGED <<cvars, evars, dvars, mvars, wvars, dfErr, spc, wpc, hpc, fileReadyChn, chnClosed, filesMade,
                 ctxWg, connWg, mux, ctxErr, events, copied, stageRet, adjustProp, deferred,
                 cleaned>>

\* doPut: if err != nil, df.Context.CaptureErr; doPutDone: context.Wg.Write.Done()
PutDone ==
  /\ putStored > 0
  /\ dfErr' = (dfErr \/ stageErr)
  /\ putStored' = putStored - 1
  /\ ctxWg' = ctxWg - 1
  /\ UNCHANGED <<cvars, evars, dvars, mvars, wvars, stageErr, putFailed, spc, wpc, hpc, fileReadyChn, chnClosed,
                 filesMade, connWg, mux, ctxErr, events, copied, stageRet, adjustProp, deferred,
                 cleaned>>

\* context.Wg.Write.Wait()
WaitWrites ==
  /\ spc = "wait"
  /\ ctxWg = 0
  /\ spc' = "copy"
  /\ UNCHANGED <<cvars, evars, dvars, mvars, wvars, stageErr, putStored, putFailed, dfErr, wpc, hpc, fileReadyChn, chnClosed, filesMade, ctxWg,
                 connWg, mux, ctxErr, events, copied, stageRet, adjustProp, deferred, cleaned>>

\* doCopyFolder: nothing when df.Err() != nil, else COPY INTO from the stage folder
CopyFolder ==
  /\ spc = "copy"
  /\ IF dfErr
     THEN UNCHANGED <<dfErr, copied>>
     ELSE \E ok \in BOOLEAN : copied' = TRUE /\ dfErr' = ~ok
  /\ spc' = "ret"
  /\ UNCHANGED <<cvars, evars, dvars, mvars, wvars, stageErr, putStored, putFailed, wpc, hpc, fileReadyChn, chnClosed, filesMade, ctxWg, connWg,
                 mux, ctxErr, events, stageRet, adjustProp, deferred, cleaned>>

\* context.Err() != nil: return 0, err; df.Err() != nil: return 0, err; else
\* df.Count(); BulkImportFlow's deferred df.CleanUp() runs
StageReturn ==
  /\ spc = "ret"
  /\ stageRet' = IF ctxErr \/ dfErr THEN "error" ELSE "ok"
  /\ spc' = "returned"
  /\ cleaned' = CleanUp(deferred)
  /\ UNCHANGED <<cvars, evars, dvars, mvars, wvars, stageErr, putStored, putFailed, dfErr, wpc, hpc, fileReadyChn, chnClosed, filesMade, ctxWg,
                 connWg, mux, ctxErr, events, copied, adjustProp, deferred>>

\* the connection's context, parent of CopyViaStage's context, is cancelled
CancelConn ==
  /\ spc \notin {"start", "returned"}
  /\ ~ctxErr
  /\ ctxErr' = TRUE
  /\ UNCHANGED <<cvars, evars, dvars, mvars, wvars, stageErr, putStored, putFailed, dfErr, spc, wpc, hpc, fileReadyChn, chnClosed, filesMade,
                 ctxWg, connWg, mux, events, copied, stageRet, adjustProp, deferred, cleaned>>

StageNext ==
  \/ CopyViaStageStart
  \/ StageRemove
  \/ WriterNewFs
  \/ WriterFileReady
  \/ WriterReturn
  \/ WriterCaptureErr
  \/ ColumnChanged
  \/ HandlerLock
  \/ HandlerWait
  \/ ColumnChangedAlter
  \/ ColumnAdded
  \/ ColumnAddedAlter
  \/ LoopReceive
  \/ LoopLock
  \/ LoopPut
  \/ PutStore
  \/ PutDone
  \/ WaitWrites
  \/ CopyFolder
  \/ StageReturn
  \/ CancelConn

StageSpec == InitStage /\ [][StageNext]_vars

\* every goroutine that can take a step eventually takes one; a started
\* PUT, DDL or COPY statement ends
StageFairness ==
  /\ WF_vars(CopyViaStageStart) /\ WF_vars(StageRemove)
  /\ WF_vars(WriterNewFs) /\ WF_vars(WriterReturn) /\ WF_vars(WriterCaptureErr)
  /\ WF_vars(HandlerLock) /\ WF_vars(HandlerWait)
  /\ WF_vars(ColumnChangedAlter) /\ WF_vars(ColumnAddedAlter)
  /\ WF_vars(LoopReceive) /\ WF_vars(LoopLock) /\ WF_vars(LoopPut)
  /\ WF_vars(PutStore) /\ WF_vars(PutDone) /\ WF_vars(WaitWrites) /\ WF_vars(CopyFolder)
  /\ WF_vars(StageReturn)

FairStageSpec == StageSpec /\ StageFairness

\* ------------------------------------------------------------- Config
\* the variables of WriteToDb other than the Config's Mode and primary key
wrest == <<pc, returned, AddNewColumns, adjustColumnType, dfColumns, srcRows,
           allowEmptyTables, errorOnChecksumFailure, checksum, cnt, tCnt, err, errCtx,
           tmpTable, finalTable, tx, txSnap, created, ops, cleanupTasks, cleanupRan>>

\* no run of WriteToDb has started
InitWriteIdle ==
  /\ pc = "idle" /\ returned = FALSE
  /\ AddNewColumns = FALSE /\ adjustColumnType = FALSE
  /\ dfColumns = 0 /\ srcRows = <<>>
  /\ allowEmptyTables = FALSE /\ errorOnChecksumFailure = FALSE /\ checksum = "none"
  /\ cnt = 0 /\ tCnt = 0 /\ err = FALSE /\ errCtx = <<>> /\ dfErr = FALSE
  /\ tmpTable = NoTable /\ finalTable = NoTable
  /\ tx = "none" /\ txSnap = NoTable /\ created = FALSE
  /\ ops = <<>> /\ cleanupTasks = <<>> /\ cleanupRan = FALSE

\* the update key that asks for the loaded-at column of a file source
slingLoadedAtColumn == "_sling_loaded_at"

\* mode strings that are none of the five: another word, another casing, and
\* the string WriteToDb compares with in its swap branch
InvalidModes == {"append", "Full-Refresh", "drop (need to optimize temp table in place)"}

\* a range string: digits and commas
RangeStrings == SeqsUpTo({"1", ","}, MaxRange)

\* strings.Split(s, ","): the parts between the commas; one part when none
RECURSIVE Split(_)
Split(s) ==
  IF \A i \in 1..Len(s) : s[i] # "," THEN <<s>>
  ELSE LET i == CHOOSE i \in 1..Len(s) : s[i] = "," /\ \A j \in 1..(i - 1) : s[j] # ","
       IN <<SubSeq(s, 1, i - 1)>> \o Split(SubSeq(s, i + 1, Len(s)))

\* a Config as Unmarshal and Prepare leave it
InitConfig ==
  /\ InitWriteIdle /\ InitStageIdle /\ InitDecimalIdle /\ InitMainIdle /\ InitSchemaIdle
  /\ Mode \in Modes \cup InvalidModes
  /\ Mode0 = Mode
  /\ hasPK \in BOOLEAN
  /\ called = <<>>
  /\ UpdateKey \in {"", "updated_at", slingLoadedAtColumn}
  /\ srcType \in {"db", "bigtable", "file", "unknown"}
  /\ tgtType \in {"db", "file", "unknown"}
  /\ srcStreamProvided \in BOOLEAN
  /\ tgtPostSQL \in BOOLEAN
  /\ Range \in {<<>>} \cup {<<r>> : r \in RangeStrings}
  /\ MetadataLoadedAt \in BOOLEAN
  /\ loadedAtColumn \in {"", "true", "false"}
  /\ Type = "" /\ cfgErr = FALSE
  /\ rangeArr = <<>> /\ readRet = "none"
  /\ InitNameIdle

Called(f) == \E i \in 1..Len(called) : called[i] = f

\* cfg.Options.StdIn || cfg.SrcConn.Info().Type.IsFile()
srcFileProvided == srcType = "file"
\* cfg.Options.StdOut || cfg.TgtConn.Info().Type.IsFile()
tgtFileProvided == tgtType = "file"
srcDbProvided == srcType \in {"db", "bigtable"}
tgtDbProvided == tgtType = "db"
\* API sourcing is disabled
srcAPIProvided == FALSE

\* the string of the swap branch of WriteToDb taken for a mode
validMode_Swap(mode) ==
  mode \in {FullRefreshMode, IncrementalMode, BackfillMode, SnapshotMode, TruncateMode,
            "drop (need to optimize temp table in place)"}

\* g.In(cfg.Mode, FullRefreshMode, IncrementalMode, BackfillMode, SnapshotMode, TruncateMode)
validMode(mode) ==
  mode \in {FullRefreshMode, IncrementalMode, BackfillMode, SnapshotMode, TruncateMode}

\* either key missing rejected, as the help text of the mode flag words it
IncrementalRejected_Either(uk, pk) == uk = "" \/ ~pk

\* incremental, source neither BigTable nor a file keyed on the loaded-at
\* column: cfg.Source.UpdateKey == "" && len(cfg.Source.PrimaryKey()) == 0
IncrementalRejected(uk, pk) == uk = "" /\ ~pk

\* the parts of the range not counted
BackfillRejected_NoParts(uk, pk, range) == uk = "" \/ ~pk \/ range = <<>>

\* backfill: update key or primary key missing, range missing or not two parts
BackfillRejected(uk, pk, range) ==
  uk = "" \/ ~pk \/ range = <<>> \/ Len(Split(range[1])) # 2

\* the chain that picks the JobType; "" when no branch applies
JobTypeOf ==
  IF srcDbProvided /\ tgtDbProvided THEN "DbToDb"
  ELSE IF srcFileProvided /\ tgtDbProvided THEN "FileToDB"
  ELSE IF srcDbProvided /\ srcStreamProvided /\ ~tgtDbProvided /\ tgtFileProvided
  THEN "DbToFile"
  ELSE IF srcFileProvided /\ ~srcDbProvided /\ ~tgtDbProvided /\ tgtFileProvided
  THEN "FileToFile"
  ELSE IF srcAPIProvided /\ srcStreamProvided /\ tgtDbProvided THEN "APIToDb"
  ELSE IF srcAPIProvided /\ srcStreamProvided /\ ~srcDbProvided /\ ~tgtDbProvided
          /\ tgtFileProvided
  THEN "APIToFile"
  ELSE IF tgtDbProvided /\ tgtPostSQL THEN "DbSQL"
  ELSE ""

\* Config.DetermineType
DetermineType ==
  /\ ~Called("DetermineType")
  /\ called' = Append(called, "DetermineType")
  /\ LET mode == IF Mode = "" THEN FullRefreshMode ELSE Mode
         bigtable == srcType = "bigtable"
         fileLoadedAt == srcFileProvided /\ UpdateKey = slingLoadedAtColumn
     IN /\ Mode' = mode
        /\ IF \/ ~validMode(mode)
              \/ /\ mode = IncrementalMode /\ ~bigtable /\ ~fileLoadedAt
                 /\ IncrementalRejected(UpdateKey, hasPK)
              \/ mode = BackfillMode /\ BackfillRejected(UpdateKey, hasPK, Range)
           THEN /\ cfgErr' = TRUE
                /\ Type' = ""
                /\ UNCHANGED <<hasPK, UpdateKey, MetadataLoadedAt>>
           ELSE /\ hasPK' = (hasPK \/ (mode = IncrementalMode /\ bigtable))
                /\ UpdateKey' = IF mode = IncrementalMode /\ bigtable /\ UpdateKey = ""
                                THEN "_bigtable_timestamp" ELSE UpdateKey
                /\ MetadataLoadedAt' =
                     \/ MetadataLoadedAt
                     \/ mode = SnapshotMode
                     \/ mode = IncrementalMode /\ ~bigtable /\ fileLoadedAt
                /\ Type' = JobTypeOf
                /\ cfgErr' = (JobTypeOf = "")
  /\ UNCHANGED <<wrest, svars, dvars, mvars, evars, dfErr, Mode0, srcType, tgtType, srcStreamProvided, tgtPostSQL,
                 Range, loadedAtColumn, rangeArr, readRet,
                 Object, connType, TableTmpOpt, TableTmp>>

\* cast.ToBool of a string
ToBool(val) == val \in {"1", "t", "T", "true", "TRUE", "True"}

\* Config.SetDefault: the defaults of the options, then the environment
\* variables: SLING_LOADED_AT_COLUMN, when not empty, sets cfg.MetadataLoadedAt
SetDefault ==
  /\ ~Called("SetDefault")
  /\ called' = Append(called, "SetDefault")
  /\ MetadataLoadedAt' = IF loadedAtColumn # "" THEN ToBool(loadedAtColumn)
                         ELSE MetadataLoadedAt
  /\ UNCHANGED <<Mode, Mode0, hasPK, wrest, svars, dvars, mvars, evars, dfErr, UpdateKey, srcType, tgtType,
                 srcStreamProvided, tgtPostSQL, Range, loadedAtColumn, Type, cfgErr,
                 rangeArr, readRet, Object, connType, TableTmpOpt, TableTmp>>

\* the task reads from a database when the job type says so
ReadsFromDB == Type \in {"DbToDb", "DbToFile"}

\* TaskExecution.ReadFromDB, as far as the range: an early error return, or
\* in backfill mode rangeArr := strings.Split(*Range, ","), rangeArr[0],
\* rangeArr[1]; a nil Range or a missing part is a run-time panic
ReadFromDB ==
  /\ Called("DetermineType") /\ ~cfgErr /\ ReadsFromDB
  /\ ~Called("ReadFromDB")
  /\ called' = Append(called, "ReadFromDB")
  /\ \E early \in BOOLEAN :
       IF early
       THEN readRet' = "error" /\ UNCHANGED rangeArr
       ELSE IF Mode # BackfillMode
       THEN readRet' = "ok" /\ UNCHANGED rangeArr
       ELSE IF Range = <<>>
       THEN readRet' = "panic" /\ UNCHANGED rangeArr
       ELSE /\ rangeArr' = Split(Range[1])
            /\ readRet' = IF Len(Split(Range[1])) < 2 THEN "panic" ELSE "ok"
  /\ UNCHANGED <<Mode, Mode0, hasPK, wrest, svars, dvars, mvars, evars, dfErr, UpdateKey, srcType, tgtType,
                 srcStreamProvided, tgtPostSQL, Range, MetadataLoadedAt, loadedAtColumn,
                 Type, cfgErr, Object, connType, TableTmpOpt, TableTmp>>

ConfigNext == DetermineType \/ SetDefault \/ ReadFromDB

ConfigSpec == InitConfig /\ [][ConfigNext]_vars

\* ------------------------------------------------------------- staging table name
MaxRuns == 2      \* runs of WriteToDb on the same target

\* tableTmp.Name[:24] for Oracle: max is 30 chars
OracleNameLen == 24

\* name lengths around the Oracle limit
NameLens == {1, OracleNameLen, OracleNameLen + 1, OracleNameLen + 2}

ConnTypes == {"postgres", "snowflake", "oracle"}

\* a sample of g.NumericRunes and of g.AplhanumericRunes
NumericRunes == {"0", "7"}
AplhanumericRunes == {"a", "7"}

\* tgtConn.GetType().DBNameUpperCase()
DBNameUpperCase(t) == t \in {"snowflake", "oracle"}

ToUpper(c) == IF c = "a" THEN "A" ELSE c
ToLower(c) == IF c = "A" THEN "a" ELSE c

\* the suffix in lower case whatever the store
Suffix_Lower(t) == "_tmp"

\* lo.Ternary(tgtConn.GetType().DBNameUpperCase(), "_TMP", "_tmp")
Suffix(t) == IF DBNameUpperCase(t) THEN "_TMP" ELSE "_tmp"

\* the name of the staging table for a target table on a store of type t;
\* r1, r2 are the characters g.RandString returned
TmpNameOf(obj, t, r1, r2) ==
  IF t = "oracle"
  THEN LET cut == IF Len(obj.name) > OracleNameLen
                  THEN SubSeq(obj.name, 1, OracleNameLen) ELSE obj.name
           c1 == IF DBNameUpperCase(t) THEN ToUpper(r1) ELSE ToLower(r1)
           c2 == IF DBNameUpperCase(t) THEN ToUpper(r2) ELSE ToLower(r2)
       IN [obj EXCEPT !.name = cut \o <<Suffix(t), c1, c2>>]
  ELSE [obj EXCEPT !.name = obj.name \o <<Suffix(t)>>]

InitName ==
  /\ InitWriteIdle /\ InitStageIdle /\ InitDecimalIdle /\ InitMainIdle /\ InitSchemaIdle
  /\ Mode = "" /\ Mode0 = "" /\ hasPK = FALSE
  /\ called = <<>>
  /\ UpdateKey = "" /\ srcType = "db" /\ tgtType = "db"
  /\ srcStreamProvided = TRUE /\ tgtPostSQL = FALSE /\ Range = <<>>
  /\ MetadataLoadedAt = FALSE /\ loadedAtColumn = ""
  /\ Type = "" /\ cfgErr = FALSE
  /\ rangeArr = <<>> /\ readRet = "none"
  /\ Object \in {[schema |-> "public", name |-> NameOf(n)] : n \in NameLens}
  /\ connType \in ConnTypes
  /\ TableTmpOpt \in {<<>>, <<[schema |-> "public", name |-> <<"m", "y">>]>>}
  /\ TableTmp = <<>>

\* WriteToDb, lines 105-130, of one more run on the same target with a
\* Config of its own: a table_tmp given is kept, else the name is made
SetTableTmp ==
  /\ Len(TableTmp) < MaxRuns
  /\ IF TableTmpOpt # <<>>
     THEN TableTmp' = Append(TableTmp, TableTmpOpt[1])
     ELSE \E r1 \in NumericRunes, r2 \in AplhanumericRunes :
            TableTmp' = Append(TableTmp, TmpNameOf(Object, connType, r1, r2))
  /\ UNCHANGED <<wvars, svars, dvars, mvars, evars, dfErr, called, Mode0, UpdateKey, srcType, tgtType,
                 srcStreamProvided, tgtPostSQL, Range, MetadataLoadedAt, loadedAtColumn,
                 Type, cfgErr, rangeArr, readRet, Object, connType, TableTmpOpt>>

NameSpec == InitName /\ [][SetTableTmp]_vars

\* ------------------------------------------------------------- columns
\* WriteToDb from the import on, seen through the columns of the Dataflow,
\* of the staging table and of the final table
MaxChanges == 2   \* column events raised during one import
MaxBatches == 2   \* batches written to the staging table

Types == {"integer", "decimal", "date", "string"}

\* the wider of two types; pairs with no common numeric type resolve to string
Widen(a, b) ==
  IF a = b THEN a
  ELSE IF {a, b} = {"integer", "decimal"} THEN "decimal"
  ELSE "string"

\* b is a, or wider than a
Wider(a, b) == Widen(a, b) = b

Col(n, t) == [name |-> n, type |-> t]

Names(cols) == {cols[i].name : i \in 1..Len(cols)}

TypeOf(cols, n) == cols[CHOOSE i \in 1..Len(cols) : cols[i].name = n].type

\* database.AddMissingColumns: the table with the columns of newCols it lacks
AddMissing(table, newCols) ==
  table \o SelectSeq(newCols, LAMBDA c : c.name \notin Names(table))

\* conn.OptimizeTable: the table's columns, each widened to hold the type of
\* the column of the same name in newColumns
OptimizeColumns(table, newColumns) ==
  [i \in 1..Len(table) |->
     IF table[i].name \in Names(newColumns)
     THEN Col(table[i].name, Widen(table[i].type, TypeOf(newColumns, table[i].name)))
     ELSE table[i]]

\* for i := range df.Columns { df.Columns[i].Type = table.Columns[i].Type }
CopyTypes(df, table) == [i \in 1..Len(df) |-> Col(df[i].name, table[i].type)]

\* ALTER TABLE ADD COLUMN: the rows there get null for the new columns
AddNulls(rows, n) == [r \in 1..Len(rows) |-> rows[r] \o [i \in 1..n |-> "null"]]

\* every variable of WriteToDb but created
wcols == <<pc, returned, Mode, hasPK, AddNewColumns, adjustColumnType, dfColumns, srcRows,
           allowEmptyTables, errorOnChecksumFailure, checksum, cnt, tCnt, err, errCtx,
           tmpTable, finalTable, tx, txSnap, ops, cleanupTasks, cleanupRan>>

\* the staging table was created from the sample, or from the table DDL,
\* which lists the columns in the stream's order or in another; the
\* callbacks are set and the import starts
InitSchema ==
  /\ pc = "idle" /\ returned = FALSE
  /\ Mode \in {FullRefreshMode, TruncateMode, IncrementalMode, SnapshotMode, BackfillMode}
  /\ hasPK = TRUE
  /\ AddNewColumns \in BOOLEAN
  /\ adjustColumnType \in BOOLEAN
  /\ dfColumns = 2 /\ srcRows = <<>>
  /\ allowEmptyTables = FALSE /\ errorOnChecksumFailure = FALSE /\ checksum = "none"
  /\ cnt = 0 /\ tCnt = 0 /\ err = FALSE /\ errCtx = <<>> /\ dfErr = FALSE
  /\ tmpTable = NoTable /\ finalTable = NoTable
  /\ tx = "none" /\ txSnap = NoTable /\ created = FALSE
  /\ ops = <<>> /\ cleanupTasks = <<>> /\ cleanupRan = FALSE
  /\ InitStageIdle /\ InitDecimalIdle /\ InitMainIdle /\ InitConfigIdle
  /\ epc = "stream"
  /\ dfCols \in {<<Col("id", t), Col("name", "string")>> : t \in {"integer", "date"}}
  /\ TableDDL \in {<<>>, dfCols, <<dfCols[2], dfCols[1]>>}
  /\ tmpCols = IF TableDDL # <<>> THEN TableDDL ELSE dfCols
  /\ finCols \in {<<>>,
                  <<Col("id", "integer")>>,
                  <<Col("id", "integer"), Col("name", "string")>>,
                  <<Col("name", "string"), Col("id", "integer")>>}
  /\ tgtColumns = <<>>
  /\ tmpData = <<>> /\ ddl = <<>>
  /\ event = NoEvent /\ lastEvent = NoEvent /\ handled = 0

\* a producer meets values a column's type does not hold and calls
\* df.OnColumnChanged with the column and its wider type; or calls it again
\* with the event applied last
RaiseColumnChanged ==
  /\ epc = "stream"
  /\ adjustColumnType
  /\ handled < MaxChanges
  /\ \E p \in 1..Len(dfCols), t \in Types :
       LET e == [kind |-> "changed", pos |-> p, name |-> dfCols[p].name, type |-> t] IN
       /\ (Wider(dfCols[p].type, t) /\ t # dfCols[p].type) \/ e = lastEvent
       /\ event' = e
  /\ epc' = "chg_set"
  /\ UNCHANGED <<wvars, svars, dvars, mvars, cvars, dfErr, dfCols, tmpCols, finCols, tgtColumns,
                 TableDDL, tmpData, ddl, lastEvent, handled>>

\* OnColumnChanged: ParseTableName, GetColumns of the staging table,
\* df.Columns[col.Position-1].Type = col.Type
OnColumnChangedSet ==
  /\ epc = "chg_set"
  /\ \E ok \in BOOLEAN :
       IF ok
       THEN /\ dfCols' = [dfCols EXCEPT ![event.pos] = Col(@.name, event.type)]
            /\ epc' = "chg_opt"
       ELSE /\ epc' = "failed"
            /\ UNCHANGED dfCols
  /\ UNCHANGED <<wvars, svars, dvars, mvars, cvars, dfErr, tmpCols, finCols, tgtColumns, TableDDL,
                 tmpData, ddl, event, lastEvent, handled>>

\* OnColumnChanged: tgtConn.OptimizeTable(&table, df.Columns); when it changed
\* the table, cfg.Target.columns and the types of df.Columns are set from it
OnColumnChangedOptimize ==
  /\ epc = "chg_opt"
  /\ \E ok \in BOOLEAN :
       LET table == OptimizeColumns(tmpCols, dfCols) IN
       IF ~ok
       THEN /\ epc' = "failed"
            /\ UNCHANGED <<dfCols, tmpCols, tgtColumns, ddl, lastEvent, handled>>
       ELSE IF table = tmpCols
       THEN /\ epc' = "stream"
            /\ lastEvent' = event
            /\ handled' = handled + 1
            /\ UNCHANGED <<dfCols, tmpCols, tgtColumns, ddl>>
       ELSE IF Len(table) < Len(dfCols)
       THEN /\ epc' = "panic"
            /\ tmpCols' = table
            /\ tgtColumns' = table
            /\ ddl' = Append(ddl, "alter column")
            /\ UNCHANGED <<dfCols, lastEvent, handled>>
       ELSE /\ tmpCols' = table
            /\ tgtColumns' = table
            /\ ddl' = Append(ddl, "alter column")
            /\ dfCols' = CopyTypes(dfCols, table)
            /\ lastEvent' = event
            /\ handled' = handled + 1
            /\ epc' = "stream"
  /\ UNCHANGED <<wvars, svars, dvars, mvars, cvars, dfErr, finCols, TableDDL, tmpData, event>>

\* a producer meets a column the Dataflow lacks, appends it to df.Columns
\* and calls df.OnColumnAdded; or calls it again with the event applied last
RaiseColumnAdded ==
  /\ epc = "stream"
  /\ AddNewColumns
  /\ handled < MaxChanges
  /\ LET e == [kind |-> "added", pos |-> 3, name |-> "age", type |-> "integer"] IN
     /\ event' = e
     /\ IF e.name \in Names(dfCols)
        THEN e = lastEvent /\ UNCHANGED dfCols
        ELSE dfCols' = Append(dfCols, Col(e.name, e.type))
  /\ epc' = "added"
  /\ UNCHANGED <<wvars, svars, dvars, mvars, cvars, dfErr, tmpCols, finCols, tgtColumns, TableDDL,
                 tmpData, ddl, lastEvent, handled>>

\* OnColumnAdded: ParseTableName, database.AddMissingColumns on the staging
\* table, and pullTargetTempTableColumns when a column was added
OnColumnAdded ==
  /\ epc = "added"
  /\ \E ok \in BOOLEAN, pulled \in BOOLEAN :
       LET table == AddMissing(tmpCols, <<Col(event.name, event.type)>>) IN
       IF ~ok
       THEN /\ epc' = "failed"
            /\ UNCHANGED <<tmpCols, tgtColumns, tmpData, ddl, lastEvent, handled>>
       ELSE IF table = tmpCols
       THEN /\ epc' = "stream"
            /\ lastEvent' = event
            /\ handled' = handled + 1
            /\ UNCHANGED <<tmpCols, tgtColumns, tmpData, ddl>>
       ELSE /\ tmpCols' = table
            /\ tmpData' = AddNulls(tmpData, Len(table) - Len(tmpCols))
            /\ ddl' = Append(ddl, "add column")
            /\ IF pulled
               THEN /\ tgtColumns' = table
                    /\ lastEvent' = event
                    /\ handled' = handled + 1
                    /\ epc' = "stream"
               ELSE /\ epc' = "failed"
                    /\ UNCHANGED <<tgtColumns, lastEvent, handled>>
  /\ UNCHANGED <<wvars, svars, dvars, mvars, cvars, dfErr, dfCols, finCols, TableDDL, event>>

\* BulkImportFlow writes a batch: a value for each column of the Dataflow
WriteBatch ==
  /\ epc = "stream"
  /\ Len(tmpData) < MaxBatches
  /\ IF Names(dfCols) \subseteq Names(tmpCols)
     THEN /\ tmpData' = Append(tmpData,
                 [i \in 1..Len(tmpCols) |->
                    IF tmpCols[i].name \in Names(dfCols) THEN "value" ELSE "null"])
          /\ UNCHANGED epc
     ELSE /\ epc' = "failed"
          /\ UNCHANGED tmpData
  /\ UNCHANGED <<wvars, svars, dvars, mvars, cvars, dfErr, dfCols, tmpCols, finCols, tgtColumns,
                 TableDDL, ddl, event, lastEvent, handled>>

\* BulkImportFlow returns; commit, count check, begin of the merge transaction
EndImport ==
  /\ epc = "stream"
  /\ epc' = "final_create"
  /\ UNCHANGED <<wvars, svars, dvars, mvars, cvars, dfErr, dfCols, tmpCols, finCols, tgtColumns,
                 TableDDL, tmpData, ddl, event, lastEvent, handled>>

\* full-refresh drops the final table; createTableIfNotExists creates it from
\* the table DDL when one is given, else from a sample with df.Columns
CreateFinalColumns ==
  /\ epc = "final_create"
  /\ LET dropped == IF DropsFinal(Mode) THEN <<>> ELSE finCols
         isNew == dropped = <<>>
     IN /\ created' = isNew
        /\ finCols' = IF ~isNew THEN dropped
                       ELSE IF TableDDL # <<>> THEN TableDDL ELSE dfCols
        /\ epc' = IF AdjustsSchema(isNew, Mode) THEN "final_add" ELSE "final_merge"
  /\ UNCHANGED <<wcols, svars, dvars, mvars, cvars, dfErr, dfCols, tmpCols, tgtColumns, TableDDL,
                 tmpData, ddl, event, lastEvent, handled>>

\* database.AddMissingColumns(tgtConn, table, sample.Columns) on the final
\* table, and pullTargetTableColumns when a column was added
AddMissingFinalColumns ==
  /\ epc = "final_add"
  /\ IF AddNewColumns
     THEN \E ok \in BOOLEAN :
            LET table == AddMissing(finCols, dfCols) IN
            IF ~ok
            THEN epc' = "failed" /\ UNCHANGED <<finCols, tgtColumns>>
            ELSE /\ finCols' = table
                 /\ tgtColumns' = IF table # finCols THEN table ELSE tgtColumns
                 /\ epc' = "final_opt"
     ELSE epc' = "final_opt" /\ UNCHANGED <<finCols, tgtColumns>>
  /\ UNCHANGED <<wvars, svars, dvars, mvars, cvars, dfErr, dfCols, tmpCols, TableDDL, tmpData, ddl,
                 event, lastEvent, handled>>

\* pullTargetTableColumns, tgtConn.OptimizeTable(&table, sample.Columns) on
\* the final table; when it changed the table, cfg.Target.columns and the
\* types of df.Columns are set from it, position by position
OptimizeFinalColumns ==
  /\ epc = "final_opt"
  /\ IF adjustColumnType
     THEN \E ok \in BOOLEAN :
            LET table == OptimizeColumns(finCols, dfCols) IN
            IF ~ok
            THEN epc' = "failed" /\ UNCHANGED <<finCols, tgtColumns, dfCols>>
            ELSE IF table = finCols
            THEN epc' = "final_merge" /\ UNCHANGED <<finCols, tgtColumns, dfCols>>
            ELSE IF Len(table) < Len(dfCols)
            THEN /\ epc' = "panic"
                 /\ finCols' = table
                 /\ tgtColumns' = table
                 /\ UNCHANGED dfCols
            ELSE /\ finCols' = table
                 /\ tgtColumns' = table
                 /\ dfCols' = CopyTypes(dfCols, table)
                 /\ epc' = "final_merge"
     ELSE epc' = "final_merge" /\ UNCHANGED <<finCols, tgtColumns, dfCols>>
  /\ UNCHANGED <<wvars, svars, dvars, mvars, cvars, dfErr, tmpCols, TableDDL, tmpData, ddl, event,
                 lastEvent, handled>>

\* the merge statement runs: insert, truncate and insert, or upsert
MergeColumns ==
  /\ epc = "final_merge"
  /\ \E ok \in BOOLEAN :
       epc' = IF ok /\ Names(tmpCols) \subseteq Names(finCols) THEN "done" ELSE "failed"
  /\ UNCHANGED <<wvars, svars, dvars, mvars, cvars, dfErr, dfCols, tmpCols, finCols, tgtColumns,
                 TableDDL, tmpData, ddl, event, lastEvent, handled>>

SchemaNext ==
  \/ RaiseColumnChanged
  \/ OnColumnChangedSet
  \/ OnColumnChangedOptimize
  \/ RaiseColumnAdded
  \/ OnColumnAdded
  \/ WriteBatch
  \/ EndImport
  \/ CreateFinalColumns
  \/ AddMissingFinalColumns
  \/ OptimizeFinalColumns
  \/ MergeColumns

SchemaSpec == InitSchema /\ [][SchemaNext]_vars

\* ------------------------------------------------------------- decimals
MaxDecBytes == 18  \* length of a byte array of fixed length

\* the characters of the decimal digits, the digit d at d + 1
DecDigits == <<"0", "1", "2", "3", "4", "5", "6", "7", "8", "9">>

\* the bytes of a number in little-endian order, plus one
RECURSIVE Inc(_)
Inc(x) ==
  IF x = <<>> THEN <<>>
  ELSE IF x[1] = 255 THEN <<0>> \o Inc(Tail(x))
  ELSE <<x[1] + 1>> \o Tail(x)

\* the byte that holds the sign of a magnitude with its top bit set left out
FewestBytes_NoSignByte(mag) == IF mag = <<>> THEN 1 ELSE Len(mag)

\* the fewest bytes that hold a little-endian magnitude and a sign bit
FewestBytes(mag) ==
  IF mag = <<>> THEN 1
  ELSE IF mag[Len(mag)] >= 128 THEN Len(mag) + 1 ELSE Len(mag)

\* StringToDecimalByteArray(s, MakeDecNumScale(scale), pType, length): the
\* value of the decimal string times 10^scale, an integer, as a big-endian
\* two's complement byte array: of the fewest bytes, or of length bytes when
\* that is more
StringToDecimalByteArray(s, scale, length) ==
  LET neg == s # <<>> /\ s[1] = "-"
      point == IF \E i \in 1..Len(s) : s[i] = "."
               THEN CHOOSE i \in 1..Len(s) : s[i] = "." ELSE Len(s) + 1
      whole == SelectSeq(SubSeq(s, 1, point - 1), LAMBDA c : c # "-")
      frac == SubSeq(s, point + 1, Len(s))
      digs == whole \o [i \in 1..scale |-> IF i <= Len(frac) THEN frac[i] ELSE "0"]
      val(c) == (CHOOSE d \in 1..10 : DecDigits[d] = c) - 1
      RECURSIVE MulAdd(_, _)
      MulAdd(x, carry) ==
        IF x = <<>> THEN (IF carry = 0 THEN <<>> ELSE <<carry>>)
        ELSE LET v == x[1] * 10 + carry
             IN  <<v % 256>> \o MulAdd(Tail(x), v \div 256)
      RECURSIVE Mag(_)
      Mag(d) ==
        IF d = <<>> THEN <<>>
        ELSE MulAdd(Mag(SubSeq(d, 1, Len(d) - 1)), val(d[Len(d)]))
      mag == Mag(digs)
      n == IF length > FewestBytes(mag) THEN length ELSE FewestBytes(mag)
      pad == [i \in 1..n |-> IF i <= Len(mag) THEN mag[i] ELSE 0]
      le == IF neg /\ mag # <<>> THEN Inc([i \in 1..n |-> 255 - pad[i]]) ELSE pad
  IN  [i \in 1..n |-> le[n + 1 - i]]

\* DecimalByteArrayToString(bytes, precision, scale): the integer of the
\* big-endian two's complement byte array in decimal digits, the point set
\* scale digits from the right, at least one digit before it
DecimalByteArrayToString(bytes, precision, scale) ==
  LET n == Len(bytes)
      neg == bytes # <<>> /\ bytes[1] >= 128
      le == [i \in 1..n |-> bytes[n + 1 - i]]
      magLe == IF neg THEN Inc([i \in 1..n |-> 255 - le[i]]) ELSE le
      mag == [i \in 1..n |-> magLe[n + 1 - i]]
      RECURSIVE Quot(_, _)
      Quot(x, r) ==
        IF x = <<>> THEN <<>>
        ELSE LET v == r * 256 + x[1]
             IN  <<v \div 10>> \o Quot(Tail(x), v % 10)
      RECURSIVE Rem(_, _)
      Rem(x, r) == IF x = <<>> THEN r ELSE Rem(Tail(x), (r * 256 + x[1]) % 10)
      RECURSIVE Digs(_)
      Digs(x) ==
        IF \A i \in 1..Len(x) : x[i] = 0 THEN <<>>
        ELSE Digs(Quot(x, 0)) \o <<DecDigits[Rem(x, 0) + 1]>>
      digs == Digs(mag)
      zeros == IF Len(digs) > scale THEN 0 ELSE scale + 1 - Len(digs)
      all == [i \in 1..zeros |-> "0"] \o digs
      k == Len(all) - scale
      body == IF scale = 0 THEN all
              ELSE SubSeq(all, 1, k) \o <<".">> \o SubSeq(all, k + 1, Len(all))
  IN  IF neg THEN <<"-">> \o body ELSE body

\* decimal strings of a scale: whole parts of one to twenty digits without
\* a leading zero, fractions of scale digits, with and without a sign; the
\* values of TestDecimal are among them
DecValStrs(scale) ==
  LET d6 == <<"1", "2", "3", "4", "5", "6">>
      d20 == d6 \o d6 \o [i \in 1..8 |-> "0"]
      wholes == {<<"0">>, <<"1">>, <<"9">>, <<"1", "2", "7">>, <<"1", "2", "8">>,
                 <<"2", "5", "5">>, <<"2", "5", "6">>, <<"3", "2", "7", "6", "8">>,
                 d6, <<"9", "8", "7", "6", "5", "4">>, d20}
      fracs == IF scale = 0 THEN {<<>>}
               ELSE IF scale = 2 THEN {<<"0", "0">>, <<"0", "5">>, <<"5", "0">>, <<"9", "9">>}
               ELSE IF scale = 6 THEN {<<"7", "8", "9", "0", "0", "0">>}
               ELSE {d20}
      unsigned == {IF f = <<>> THEN w ELSE w \o <<".">> \o f : w \in wholes, f \in fracs}
      nonzero == {u \in unsigned : \E i \in 1..Len(u) : u[i] \notin {"0", "."}}
  IN  unsigned \cup {<<"-">> \o u : u \in nonzero}

\* a decimal string of a scale and the length asked of its byte array
InitDecimal ==
  /\ InitWriteIdle /\ InitStageIdle /\ InitSchemaIdle /\ InitNameIdle /\ InitMainIdle
  /\ called = <<>> /\ Mode = FullRefreshMode /\ Mode0 = Mode /\ hasPK = FALSE
  /\ UpdateKey = "" /\ srcType = "db" /\ tgtType = "db"
  /\ srcStreamProvided = TRUE /\ tgtPostSQL = FALSE /\ Range = <<>>
  /\ MetadataLoadedAt = FALSE /\ loadedAtColumn = ""
  /\ Type = "" /\ cfgErr = FALSE
  /\ rangeArr = <<>> /\ readRet = "none"
  /\ dpc = "start"
  /\ decScale \in {0, 2, 6, 20}
  /\ decValStr \in DecValStrs(decScale)
  /\ decLength \in {-1, MaxDecBytes}
  /\ decValBytes = <<>> /\ decOut = <<>>

\* decValBytes := StringToDecimalByteArray(decValStr, MakeDecNumScale(scale), ...)
EncodeDecimal ==
  /\ dpc = "start"
  /\ decValBytes' = StringToDecimalByteArray(decValStr, decScale, decLength)
  /\ dpc' = "encoded"
  /\ UNCHANGED <<wvars, svars, cvars, evars, mvars, dfErr, decValStr, decScale, decLength, decOut>>

\* DecimalByteArrayToString(decValBytes, precision, scale)
DecodeDecimal ==
  /\ dpc = "encoded"
  /\ decOut' = DecimalByteArrayToString(decValBytes, Len(decValStr), decScale)
  /\ dpc' = "decoded"
  /\ UNCHANGED <<wvars, svars, cvars, evars, mvars, dfErr, decValStr, decScale, decLength,
                 decValBytes>>

DecimalNext == EncodeDecimal \/ DecodeDecimal

DecimalSpec == InitDecimal /\ [][DecimalNext]_vars

\* ------------------------------------------------------------- main
\* main has made its channels, asked for the two signals to be notified and
\* started the goroutine that runs cliInit; exitCode is 11
InitMain ==
  /\ Mode = FullRefreshMode /\ hasPK = FALSE
  /\ InitWriteIdle /\ InitStageIdle /\ InitSchemaIdle /\ InitConfigIdle /\ InitDecimalIdle
  /\ mainpc = "select" /\ cmdpc = "parse"
  /\ CliObjName \in {"run", "conns", "update"} /\ ScUsed = FALSE
  /\ interruptCh = 0 /\ killCh = 0
  /\ exitCode = 11 /\ interrupted = FALSE
  /\ cancels = 0 /\ exitStatus = -1

\* signal.Notify: the runtime sends an os.Interrupt to the channel interrupt
\* and a SIGTERM to the channel kill, without blocking: a signal that finds
\* its channel full is dropped
Notify ==
  /\ mainpc # "exited"
  /\ \E sig \in {"interrupt", "kill"} :
       IF sig = "interrupt"
       THEN interruptCh' = 1 /\ UNCHANGED killCh
       ELSE killCh' = 1 /\ UNCHANGED interruptCh
  /\ UNCHANGED <<wvars, svars, cvars, evars, dvars, dfErr, mainpc, cmdpc, CliObjName, ScUsed, exitCode,
                 interrupted, cancels, exitStatus>>

\* go func() { defer close(done); exitCode = cliInit() }(): flaggy.Parse marks
\* the sub-command used, g.CliProcess runs it, conns and update are tracked,
\* cliInit returns 0, done is closed
CliInit ==
  /\ mainpc # "exited"
  /\ \/ /\ cmdpc = "parse"
        /\ ScUsed' = (CliObjName = "run")
        /\ cmdpc' = "run"
        /\ UNCHANGED exitCode
     \/ /\ cmdpc = "run"
        /\ cmdpc' = IF CliObjName \in {"conns", "update"} THEN "track" ELSE "return"
        /\ UNCHANGED <<ScUsed, exitCode>>
     \/ /\ cmdpc = "track"
        /\ cmdpc' = "return"
        /\ UNCHANGED <<ScUsed, exitCode>>
     \/ /\ cmdpc = "return"
        /\ exitCode' = 0
        /\ cmdpc' = "returned"
        /\ UNCHANGED ScUsed
     \/ /\ cmdpc = "returned"
        /\ cmdpc' = "done"
        /\ UNCHANGED <<ScUsed, exitCode>>
  /\ UNCHANGED <<wvars, svars, cvars, evars, dvars, dfErr, mainpc, CliObjName, interruptCh, killCh,
                 interrupted, cancels, exitStatus>>

\* the select of main: a case that is ready is taken, any one of them when
\* several are; done: os.Exit(exitCode); kill: os.Exit(111); interrupt: with
\* the run sub-command in use, interrupted = true and ctx.Cancel(), else
\* os.Exit(exitCode)
MainSelect ==
  /\ mainpc = "select"
  /\ \/ /\ cmdpc = "done"
        /\ mainpc' = "exited" /\ exitStatus' = exitCode
        /\ UNCHANGED <<interruptCh, killCh, interrupted, cancels>>
     \/ /\ killCh > 0
        /\ killCh' = killCh - 1
        /\ mainpc' = "exited" /\ exitStatus' = 111
        /\ UNCHANGED <<interruptCh, interrupted, cancels>>
     \/ /\ interruptCh > 0
        /\ interruptCh' = interruptCh - 1
        /\ IF ScUsed
           THEN /\ interrupted' = TRUE
                /\ cancels' = cancels + 1
                /\ mainpc' = "waiting"
                /\ UNCHANGED exitStatus
           ELSE /\ mainpc' = "exited" /\ exitStatus' = exitCode
                /\ UNCHANGED <<interrupted, cancels>>
        /\ UNCHANGED killCh
  /\ UNCHANGED <<wvars, svars, cvars, evars, dvars, dfErr, cmdpc, CliObjName, ScUsed, exitCode>>

\* select { case <-done: case <-time.After(5 * time.Second): }; os.Exit(exitCode)
MainWait ==
  /\ mainpc = "waiting"
  /\ \E timeout \in BOOLEAN : timeout \/ cmdpc = "done"
  /\ mainpc' = "exited"
  /\ exitStatus' = exitCode
  /\ UNCHANGED <<wvars, svars, cvars, evars, dvars, dfErr, cmdpc, CliObjName, ScUsed, interruptCh, killCh,
                 exitCode, interrupted, cancels>>

MainNext == Notify \/ CliInit \/ MainSelect \/ MainWait

\* the timer of time.After fires: main does not wait for ever
MainSpec == InitMain /\ [][MainNext]_vars /\ WF_vars(MainWait)

\* ------------------------------------------------------------- a task
\* a task on a database target: the Config's type may be determined before
\* WriteToDb runs; WriteToDb does not run on a rejected Config
InitRun ==
  /\ InitWriteOf(Modes \cup {"drop (need to optimize temp table in place)"})
  /\ tmpTable = NoTable
  /\ finalTable \in {NoTable, Table(OldRows(Cardinality(Keys)))}
  /\ AddNewColumns /\ adjustColumnType
  /\ InitStageIdle /\ InitDecimalIdle /\ InitMainIdle /\ InitSchemaIdle
  /\ called = <<>>
  /\ Mode0 = Mode
  /\ UpdateKey \in {"", "updated_at"}
  /\ srcType = "db" /\ tgtType = "db"
  /\ srcStreamProvided = TRUE /\ tgtPostSQL = FALSE
  /\ Range = <<<<"1", ",", "1">>>>
  /\ MetadataLoadedAt = FALSE /\ loadedAtColumn = ""
  /\ Type = "" /\ cfgErr = FALSE
  /\ rangeArr = <<>> /\ readRet = "none"
  /\ InitNameIdle

RunNext ==
  \/ At("start") /\ DetermineType
  \/ ~cfgErr /\ WriteNext

RunSpec == InitRun /\ [][RunNext]_vars

\* both calls were made and the type was determined: the run reads and writes
Configured == Called("DetermineType") /\ Called("SetDefault") /\ ~cfgErr

\* ------------------------------------------------------------- properties
HasOp(o) == \E i \in 1..Len(ops) : ops[i] = o
OpAt(o) == CHOOSE i \in 1..Len(ops) : ops[i] = o
Count(o) == Len(SelectSeq(ops, LAMBDA x : x = o))

\* phases of a run, by position
Phase(p) ==
  IF p \in {"start", "drop_tmp", "pause", "create_tmp", "begin_stg", "import",
            "commit_stg"} THEN "Staging"
  ELSE IF p \in {"verify", "pre_sql", "empty_check"} THEN "Verifying"
  ELSE IF p \in {"begin_merge", "drop_final", "create_final", "add_columns",
                 "optimize", "merge", "post_sql", "commit"} THEN "Merging"
  ELSE "Committed"

Rank(p) ==
  CASE Phase(p) = "Staging" -> 1
    [] Phase(p) = "Verifying" -> 2
    [] Phase(p) = "Merging" -> 3
    [] OTHER -> 4

\* the count check has passed
Verified == Rank(pc) >= 2 /\ pc # "verify"

\* the merge transaction was begun
InMerge == Rank(pc) >= 3 /\ pc # "begin_merge"

\* the rows the staging transaction landed
Staged == SubSeq(srcRows, 1, tCnt)

\* C1: when the count read back from the staging table differs from the
\* count the bulk import returned, the run has returned an error and no
\* operation on the final table (pre-SQL, drop, create, alter, truncate,
\* insert, upsert) nor a merge transaction was ever issued.
C1_CountMismatchAborts ==
  (HasOp("get_count") /\ cnt # tCnt) =>
    /\ returned /\ err /\ pc = "verify"
    /\ \A i \in 1..Len(ops) : ops[i] \notin FinalTableOps \cup {"begin_merge"}
    /\ tx = "none"

C1_Witness ==
  /\ HasOp("get_count") /\ cnt = 1 /\ tCnt = 2 /\ returned /\ err
  /\ finalTable.exists /\ Len(finalTable.rows) = 2

\* C2 as stated: with zero rows staged and the override not enabled the run
\* returns no error, begins no merge transaction and executes no statement
\* that can change the final table.
C2_ZeroRowsNothingExecuted ==
  (Verified /\ cnt = 0 /\ ~allowEmptyTables) =>
    /\ ~HasOp("begin_merge")
    /\ \A i \in 1..Len(ops) : ops[i] \notin FinalTableOps
    /\ returned => ~err

\* C2 amended: with zero rows staged, the count check passed and the
\* override not enabled, no merge transaction begins and no drop, create,
\* alter, truncate, insert, upsert or post-SQL is executed; the configured
\* pre-SQL is still executed, and an error is returned only from it.
C2_ZeroRowsOnlyPreSQL ==
  (Verified /\ cnt = 0 /\ ~allowEmptyTables) =>
    /\ ~HasOp("begin_merge")
    /\ \A i \in 1..Len(ops) : ops[i] \notin FinalTableOps \ {"pre_sql"}
    /\ pc \in {"pre_sql", "empty_check"}
    /\ (returned /\ err) => pc = "pre_sql"
    /\ (returned /\ ~err) => pc = "empty_check"

C2_Witness ==
  /\ returned /\ ~err /\ pc = "empty_check" /\ cnt = 0 /\ ~allowEmptyTables
  /\ HasOp("pre_sql") /\ Mode = TruncateMode
  /\ finalTable.exists /\ Len(finalTable.rows) = 2

\* a step of the merge phase failed after the merge transaction had begun
MergeFailed == returned /\ err /\ InMerge /\ pc # "df_err"

C4_NoCommitAfterError ==
  [][dfErr => \A i \in (Len(ops) + 1)..Len(ops') : ops'[i] \notin CommitOps]_vars

\* C8: every schema adjustment of the final table (add-missing-columns,
\* column-type optimisation) comes before the merge statement, none after.
C8_SchemaBeforeMerge ==
  \A i, j \in 1..Len(ops) :
    (ops[i] \in SchemaOps /\ ops[j] \in MergeOps) => i < j

C8_Witness ==
  /\ HasOp("add_columns") /\ HasOp("optimize") /\ HasOp("upsert")
  /\ returned /\ ~err

\* the calls that open or close a phase
PhaseOps == {"import", "commit_stg", "get_count", "begin_merge", "commit_merge"}

\* C9: a run moves through Staging, Verifying, Merging, Committed in that
\* order and enters no phase twice: the count check follows the end of the
\* staging import and transaction, the merge transaction begins only after
\* the count check passed, no merge statement follows the final commit.
C9_Order ==
  /\ HasOp("get_count") =>
       /\ HasOp("import") /\ HasOp("commit_stg")
       /\ OpAt("import") < OpAt("commit_stg")
       /\ OpAt("commit_stg") < OpAt("get_count")
  /\ HasOp("begin_merge") =>
       /\ HasOp("get_count") /\ OpAt("get_count") < OpAt("begin_merge")
       /\ cnt = tCnt
  /\ HasOp("commit_merge") =>
       \A i \in 1..Len(ops) : ops[i] \in MergeOps => i < OpAt("commit_merge")
  /\ Len(SelectSeq(ops, LAMBDA x : x \in PhaseOps)) =
       Cardinality({ops[i] : i \in 1..Len(ops)} \cap PhaseOps)
  /\ Rank(pc) = 1 => ~HasOp("get_count")
  /\ Rank(pc) <= 2 => ~(HasOp("begin_merge") /\ ~returned)
  /\ Rank(pc) = 4 <=> (HasOp("commit_merge") /\ ops[Len(ops)] = "commit_merge")

C9_PhaseOrder == [](C9_Order) /\ [][Rank(pc') >= Rank(pc)]_vars

\* an error return from each phase
C9_AbortedFromStaging == returned /\ err /\ Phase(pc) = "Staging"
C9_AbortedFromVerifying == returned /\ err /\ Phase(pc) = "Verifying"
C9_AbortedFromMerging == returned /\ err /\ Phase(pc) = "Merging"
C9_AbortedFromCommitted == returned /\ err /\ Phase(pc) = "Committed"

C9_Witness ==
  /\ returned /\ ~err /\ Phase(pc) = "Committed"
  /\ HasOp("truncate") /\ HasOp("pre_sql") /\ HasOp("post_sql")

\* C10: a successful full-refresh run with staged rows leaves the final
\* table holding exactly the staged rows: dropped, created, then filled.
C10_FullRefreshReplaces ==
  (Mode = FullRefreshMode /\ returned /\ ~err /\ cnt > 0) =>
    /\ finalTable = Table(Staged)
    /\ Len(Staged) = cnt
    /\ HasOp("drop_final") /\ HasOp("create_final") /\ HasOp("insert")
    /\ OpAt("drop_final") < OpAt("create_final")
    /\ OpAt("create_final") < OpAt("insert")
    /\ created

C10_Witness ==
  /\ Mode = FullRefreshMode /\ returned /\ ~err /\ cnt = 2
  /\ Len(txSnap.rows) = 2 /\ Len(finalTable.rows) = 2

\* C5: while the wrapped column-type-change handler alters the staging table
\* no stage PUT is in flight, and it holds the connection's lock.
C5_NoAlterDuringPut ==
  (Wrapped /\ hpc = "chg_alter") => (ctxWg = 0 /\ mux = "handler")

\* C6: while the column-added handler alters the staging table no stage PUT
\* is in flight and no writer can start one.
C6_ColumnAddedExclusive ==
  hpc = "add_alter" => (ctxWg = 0 /\ spc # "put")

\* C7: once an error is captured in the Dataflow's context, CopyViaStage
\* eventually returns.
C7_ReturnsAfterError == (dfErr /\ spc # "start") ~> (spc = "returned")

\* the merge transaction was committed
MergeCommitted == pc = "df_err"

\* rows of a table carrying key k
RowsWithKey(rows, k) == Len(SelectSeq(rows, LAMBDA r : r[1] = k))

\* C11: in truncate mode with staged rows the final table is created if
\* absent, then truncated, then filled, in that order inside the merge
\* transaction; after the commit it holds exactly the staged rows, and a
\* failed truncate or insert leaves it as it was before the run.
C11_TruncateReplaces ==
  (Mode = TruncateMode /\ cnt > 0) =>
    /\ HasOp("truncate") =>
         /\ HasOp("begin_merge") /\ HasOp("create_final")
         /\ OpAt("begin_merge") < OpAt("create_final")
         /\ OpAt("create_final") < OpAt("truncate")
         /\ ~HasOp("drop_final")
         /\ ~txSnap.exists => created
    /\ HasOp("insert") => (HasOp("truncate") /\ OpAt("truncate") < OpAt("insert"))
    /\ HasOp("commit_merge") => (HasOp("insert") /\ OpAt("insert") < OpAt("commit_merge"))
    /\ MergeCommitted => (finalTable = Table(Staged) /\ Len(Staged) = cnt)
    /\ (returned /\ err /\ pc = "merge") => (finalTable = txSnap /\ tx = "none")

C11_Witness ==
  /\ Mode = TruncateMode /\ MergeCommitted /\ returned /\ ~err /\ cnt = 2
  /\ Len(txSnap.rows) = 2 /\ Len(finalTable.rows) = 2 /\ finalTable.rows[1][2] = 1

\* a failed insert after the truncate, rolled back
C11_FailedInsert ==
  /\ Mode = TruncateMode /\ returned /\ err /\ pc = "merge" /\ HasOp("insert")
  /\ Len(finalTable.rows) = 2 /\ cnt = 1

\* C12: in incremental mode with no primary key the merge is a plain insert
\* from staging: no final-table row is deleted or updated, and the final row
\* count grows by exactly the staged row count.
C12_IncrementalNoKeyAppends ==
  (Mode = IncrementalMode /\ ~hasPK /\ cnt > 0 /\ InMerge) =>
    /\ \A i \in 1..Len(ops) : ops[i] \notin {"truncate", "upsert", "drop_final"}
    /\ tx = "merge" =>
         SubSeq(finalTable.rows, 1, Len(txSnap.rows)) = txSnap.rows
    /\ MergeCommitted =>
         /\ HasOp("insert")
         /\ finalTable.rows = txSnap.rows \o Staged
         /\ Len(finalTable.rows) = Len(txSnap.rows) + cnt

C12_Witness ==
  /\ Mode = IncrementalMode /\ ~hasPK /\ MergeCommitted /\ returned /\ ~err
  /\ cnt = 2 /\ Len(txSnap.rows) = 2 /\ Len(finalTable.rows) = 4
  /\ srcRows[1][1] = 1

\* C13: in incremental or backfill mode with a primary key the merge is an
\* upsert on the key: a final-table row whose key matches a staged row ends
\* with the staged values, a staged row with no matching key is inserted, a
\* row with no staged key is left alone, and no key that had one final-table
\* row before the merge has two after it.
C13_UpsertByKey ==
  (Mode \in {IncrementalMode, BackfillMode} /\ hasPK /\ cnt > 0 /\ MergeCommitted) =>
    LET old == txSnap.rows
        new == finalTable.rows
    IN /\ HasOp("upsert")
       /\ Len(new) >= Len(old)
       /\ \A i \in 1..Len(old) :
            /\ new[i][1] = old[i][1]
            /\ IF old[i][1] \in KeysOf(Staged)
               THEN \E k \in 1..Len(Staged) : new[i] = Staged[k]
               ELSE new[i] = old[i]
       /\ \A k \in 1..Len(Staged) :
            Staged[k][1] \notin KeysOf(old) =>
              \E j \in (Len(old) + 1)..Len(new) : new[j] = Staged[k]
       /\ \A k \in Keys : RowsWithKey(old, k) = 1 => RowsWithKey(new, k) = 1

C13_Witness ==
  /\ Mode = IncrementalMode /\ hasPK /\ MergeCommitted /\ returned /\ ~err
  /\ txSnap.rows = <<<<1, 0>>>>
  /\ srcRows = <<<<1, 1>>, <<2, 1>>>>
  /\ finalTable.rows = <<<<1, 1>>, <<2, 1>>>>

\* C14: after an incremental merge with a primary key every staged key has
\* exactly one row in the final table: staged rows sharing a key collapse.
C14_DuplicatesCollapse ==
  (Mode = IncrementalMode /\ hasPK /\ cnt > 0 /\ MergeCommitted) =>
    \A k \in KeysOf(Staged) : RowsWithKey(finalTable.rows, k) = 1

\* C15 as stated: in snapshot mode the final table is dropped and recreated
\* before the staged rows are inserted, as in full-refresh mode.
C15_SnapshotAsFullRefresh ==
  (Mode = SnapshotMode /\ HasOp("insert")) =>
    /\ HasOp("drop_final") /\ HasOp("create_final")
    /\ OpAt("drop_final") < OpAt("create_final")
    /\ OpAt("create_final") < OpAt("insert")

\* C15 amended: snapshot mode uses the merge statement of full-refresh (create
\* if absent, plain insert of all staged rows) but never drops the final
\* table: its rows stay and the staged rows are appended.
C15_SnapshotAppends ==
  (Mode = SnapshotMode /\ cnt > 0) =>
    /\ \A i \in 1..Len(ops) : ops[i] \notin {"drop_final", "truncate", "upsert"}
    /\ HasOp("insert") =>
         (HasOp("create_final") /\ OpAt("create_final") < OpAt("insert"))
    /\ MergeCommitted =>
         /\ HasOp("insert")
         /\ finalTable.rows = txSnap.rows \o Staged

C15_Witness ==
  /\ Mode = SnapshotMode /\ MergeCommitted /\ returned /\ ~err /\ cnt = 1
  /\ Len(txSnap.rows) = 2 /\ Len(finalTable.rows) = 3

\* C17: a failed checksum comparison returns its error only when
\* ERROR_ON_CHECKSUM_FAILURE is set, and then before the merge transaction;
\* when it is not set the run goes on to the merge phase and the error it
\* may return is never the comparison's.
C17_ChecksumStrictOnly ==
  /\ (checksum = "failed" /\ errorOnChecksumFailure) =>
       /\ returned /\ err /\ pc = "empty_check"
       /\ ~HasOp("begin_merge")
       /\ ops[Len(ops)] = "checksum"
  /\ (checksum = "failed" /\ ~errorOnChecksumFailure) =>
       /\ Rank(pc) >= 3
       /\ cnt > 0
  /\ (returned /\ pc = "empty_check" /\ err) =>
       (checksum = "failed" /\ errorOnChecksumFailure)

\* a run that committed although the comparison had failed
C17_Witness ==
  /\ checksum = "failed" /\ ~errorOnChecksumFailure
  /\ MergeCommitted /\ returned /\ ~err /\ Len(finalTable.rows) = 2

\* a run aborted by the comparison under the strict flag
C17_StrictAbort ==
  /\ checksum = "failed" /\ errorOnChecksumFailure /\ returned /\ err
  /\ pc = "empty_check"

\* C18: a failed bulk import rolls the staging transaction back and returns
\* one error wrapped in the context "could not insert into <staging table>";
\* the import was called once and no statement touched the final table.
C18_ImportFailureAborts ==
  (returned /\ pc = "import") =>
    /\ err
    /\ Len(errCtx) >= 2
    /\ errCtx[1] = "could not insert into " /\ errCtx[2] = "TableTmp"
    /\ Count("import") = 1
    /\ Len(ops) >= 2
    /\ ops[Len(ops) - 1] = "import" /\ ops[Len(ops)] = "rollback"
    /\ tx = "none"
    /\ ~cleanupRan => tmpTable = Table(<<>>)
    /\ \A i \in 1..Len(ops) : ops[i] \notin FinalTableOps \cup {"begin_merge"} \cup CommitOps

C18_Witness ==
  /\ returned /\ pc = "import" /\ err /\ Len(errCtx) = 3 /\ ~dfErr
  /\ Len(srcRows) = 2 /\ Len(finalTable.rows) = 2

\* C16: in snapshot mode MetadataLoadedAt is true once DetermineType and
\* SetDefault have both been called, in whichever order, whatever
\* SLING_LOADED_AT_COLUMN holds.
C16_SnapshotForcesLoadedAt ==
  (Mode = SnapshotMode /\ Configured) => MetadataLoadedAt

\* C19: DetermineType returns an error, and no job type, for every mode that
\* is not empty and none of the five literal strings; nothing was called on
\* a connection and no table was touched.
C19_InvalidModeRejected ==
  (Called("DetermineType") /\ Mode \notin Modes \ {""}) =>
    /\ cfgErr /\ Type = ""
    /\ Mode \in InvalidModes
    /\ ops = <<>> /\ pc = "idle" /\ spc = "idle"
    /\ tmpTable = NoTable /\ finalTable = NoTable

C19_Witness ==
  /\ called = <<"DetermineType">> /\ Mode = "Full-Refresh" /\ cfgErr
  /\ srcType = "db" /\ tgtType = "db"

C21_BackfillNeedsKeysAndRange ==
  (Called("DetermineType") /\ Mode = BackfillMode) =>
    /\ ~cfgErr =>
         /\ UpdateKey # "" /\ hasPK
         /\ Range # <<>>
         /\ Len(SelectSeq(Range[1], LAMBDA c : c = ",")) = 1
    /\ (UpdateKey = "" \/ ~hasPK \/ Range = <<>>) => (cfgErr /\ Type = "")
    /\ (Range # <<>> /\ Len(SelectSeq(Range[1], LAMBDA c : c = ",")) # 1) =>
         (cfgErr /\ Type = "")
    /\ readRet # "panic"
    /\ readRet = "ok" => Len(rangeArr) = 2

C21_Witness ==
  /\ Mode = BackfillMode /\ readRet = "ok" /\ Called("SetDefault")
  /\ Range = <<<<"1", ",", "1">>>>
  /\ rangeArr = <<<<"1">>, <<"1">>>>

\* C22: a configuration whose mode is empty is treated as full-refresh: the
\* mode is full-refresh from the validation and from the first operation on
\* the target on; DetermineType accepts it as it accepts full-refresh; and
\* WriteToDb issues the operations of full-refresh: the final table dropped,
\* created and filled with the staged rows, no truncate, upsert or schema
\* adjustment.
C22_EmptyModeIsFullRefresh ==
  Mode0 = "" =>
    /\ Mode \in {"", FullRefreshMode}
    /\ (Called("DetermineType") \/ ops # <<>> \/ pc # "start") => Mode = FullRefreshMode
    /\ Called("DetermineType") => (~cfgErr /\ Type = JobTypeOf)
    /\ \A i \in 1..Len(ops) : ops[i] \notin {"truncate", "upsert"} \cup SchemaOps
    /\ HasOp("create_final") =>
         (HasOp("drop_final") /\ OpAt("drop_final") < OpAt("create_final"))
    /\ (MergeCommitted /\ cnt > 0) =>
         /\ HasOp("insert") /\ OpAt("create_final") < OpAt("insert")
         /\ finalTable = Table(Staged)

\* an empty mode that reached WriteToDb unvalidated and replaced the table
C22_Witness ==
  /\ Mode0 = "" /\ called = <<>> /\ Mode = FullRefreshMode
  /\ MergeCommitted /\ returned /\ ~err /\ cnt = 2
  /\ Len(txSnap.rows) = 2 /\ finalTable.rows = srcRows

\* an empty mode validated by DetermineType first
C22_Validated ==
  /\ Mode0 = "" /\ called = <<"DetermineType">> /\ Type = "DbToDb"
  /\ MergeCommitted /\ returned /\ ~err /\ cnt = 1

\* the calls that load the staging table, in the order of the code
StagingOps == <<"drop_tmp", "create_tmp", "begin_stg", "import", "commit_stg">>

\* C23: in every mode a statement on the final table is preceded, in the
\* same run, by the drop of the staging table, its creation, the bulk import
\* into it and the end of the staging transaction, in that order; the
\* staging table is new: created empty, whatever an earlier run left.
C23_StagedBeforeFinalLoad ==
  /\ []((\E j \in 1..Len(ops) : ops[j] \in FinalTableOps) =>
          (Len(ops) > 5 /\ SubSeq(ops, 1, 5) = StagingOps))
  /\ [][(pc = "create_tmp" /\ pc' = "begin_stg") => tmpTable' = Table(<<>>)]_vars
  /\ [][(pc = "import" /\ pc' # pc) => tmpTable'.rows = SubSeq(srcRows, 1, Len(tmpTable'.rows))]_vars

C23_Witness ==
  /\ HasOp("pre_sql") /\ HasOp("truncate") /\ HasOp("post_sql")
  /\ MergeCommitted /\ returned /\ ~err /\ cnt = 2

\* C24 as stated: two runs on the same target object and the same
\* connection type use the same staging table name.
C24_SameNameEveryRun ==
  Len(TableTmp) = 2 => TableTmp[1] = TableTmp[2]

\* C24 amended: a table_tmp given by the user is used unchanged; without it
\* the name is the target's name plus _tmp, or _TMP on a store with
\* upper-case names, the same in every run, except on Oracle, where the
\* target's name is cut to 24 characters and _TMP is followed by two random
\* characters, so that two runs may use different names.
C24_SameNameUnlessOracle ==
  \A i \in 1..Len(TableTmp) :
    /\ TableTmp[i].schema = Object.schema
    /\ TableTmpOpt # <<>> => TableTmp[i] = TableTmpOpt[1]
    /\ (TableTmpOpt = <<>> /\ connType # "oracle") =>
         /\ TableTmp[i] = TableTmp[1]
         /\ TableTmp[i].name = Object.name \o
              <<IF connType = "postgres" THEN "_tmp" ELSE "_TMP">>
    /\ (TableTmpOpt = <<>> /\ connType = "oracle") =>
         LET n == TableTmp[i].name
             k == IF Len(Object.name) > 24 THEN 24 ELSE Len(Object.name)
         IN /\ Len(n) = k + 3
            /\ SubSeq(n, 1, k) = SubSeq(Object.name, 1, k)
            /\ n[k + 1] = "_TMP"
            /\ n[k + 2] \in {"0", "7"} /\ n[k + 3] \in {"A", "7"}

\* two Oracle runs on a long target name, named differently
C24_Witness ==
  /\ Len(TableTmp) = 2 /\ connType = "oracle" /\ TableTmpOpt = <<>>
  /\ Len(Object.name) = 26
  /\ TableTmp[1] # TableTmp[2]

\* two runs on a store without the random suffix
C24_SameName ==
  /\ Len(TableTmp) = 2 /\ connType = "snowflake" /\ TableTmpOpt = <<>>
  /\ TableTmp[1] = TableTmp[2]

\* a handler is running on the event that was applied last
Replaying == epc \in {"chg_set", "chg_opt", "added"} /\ event = lastEvent

\* C25: a column-added or column-type-changed event invoked again for the
\* same column and the same type, right after it was applied, issues no
\* statement and leaves the staging table's columns and rows, the Dataflow's
\* columns and the cached target columns as the first invocation left them.
C25_ReplayIsNoOp ==
  [][(Replaying /\ epc' \notin {"failed", "panic"}) =>
       (UNCHANGED <<tmpCols, dfCols, tgtColumns, ddl, tmpData>>)]_vars

\* the staging table lists the Dataflow's columns in the Dataflow's order
StreamOrder ==
  \A i \in 1..Len(tmpCols) : i <= Len(dfCols) => tmpCols[i].name = dfCols[i].name

\* the same, for a staging table in the Dataflow's column order
C25_ReplayInStreamOrder ==
  [][(Replaying /\ StreamOrder /\ epc' \notin {"failed", "panic"}) =>
       (UNCHANGED <<tmpCols, dfCols, tgtColumns, ddl, tmpData>>)]_vars

\* a type change handled twice, altered once
C25_Witness ==
  /\ epc = "stream" /\ handled = 2 /\ Len(ddl) = 1
  /\ lastEvent.kind = "changed" /\ lastEvent.type = "decimal"
  /\ tmpCols[1].type = "decimal" /\ dfCols[1].type = "decimal"

\* a column added, its event handled twice
C25_ReplayedAdd ==
  /\ epc = "stream" /\ handled = 2 /\ ddl = <<"add column">>
  /\ lastEvent.kind = "added" /\ Len(tmpCols) = 3 /\ Len(dfCols) = 3

\* C26: after a column-added event the staging table has the column before
\* a later batch is written, the rows staged before it have null for it,
\* and with add_new_columns on the final table has the column when the
\* merge statement runs, in every mode.
C26_AddedColumnEverywhere ==
  /\ [](epc = "stream" => Names(dfCols) \subseteq Names(tmpCols))
  /\ [](\A r \in 1..Len(tmpData) : Len(tmpData[r]) = Len(tmpCols))
  /\ [][Len(tmpCols') > Len(tmpCols) =>
          \A r \in 1..Len(tmpData) : tmpData'[r] = Append(tmpData[r], "null")]_vars
  /\ []((epc = "final_merge" /\ AddNewColumns) => Names(dfCols) \subseteq Names(finCols))

\* the same, for a run without a table DDL
C26_WithoutTableDDL ==
  /\ [](epc = "stream" => Names(dfCols) \subseteq Names(tmpCols))
  /\ [](\A r \in 1..Len(tmpData) : Len(tmpData[r]) = Len(tmpCols))
  /\ [][Len(tmpCols') > Len(tmpCols) =>
          \A r \in 1..Len(tmpData) : tmpData'[r] = Append(tmpData[r], "null")]_vars
  /\ []((epc = "final_merge" /\ AddNewColumns /\ TableDDL = <<>>) =>
          Names(dfCols) \subseteq Names(finCols))

\* C27: no step of a run replaces the type of a Dataflow column by one that
\* is not the type it had, or wider.
C27_TypesOnlyWiden ==
  [][\A i \in 1..Len(dfCols) : Wider(dfCols[i].type, dfCols'[i].type)]_vars

\* the same, for the handler of the staging phase alone, on a staging table
\* in the Dataflow's column order and an event that was not applied before
C27_StagingOnlyWidens ==
  [][((epc = "chg_set" \/ epc = "chg_opt") /\ StreamOrder /\ ~Replaying) =>
       \A i \in 1..Len(dfCols) : Wider(dfCols[i].type, dfCols'[i].type)]_vars

\* the local file writer goroutine is not running and no PUT is under way
WritesEnded == wpc \in {"idle", "failed", "exit"} /\ ctxWg = 0

\* C28: when BulkImportFlow has returned, with or without error, every action
\* registered through df.Defer has been executed, and the actions were
\* executed after the import's writes had ended.
C28_CleanUpAfterWrites ==
  /\ spc = "returned" =>
       \A i \in 1..Len(deferred) : \E j \in 1..Len(cleaned) : cleaned[j] = deferred[i]
  /\ cleaned # <<>> => WritesEnded

\* the same, without the order of cleanup and writes: every registered
\* action has been executed once, the last one first
C28_CleanUpOnEveryReturn ==
  spc = "returned" =>
    /\ Len(cleaned) = Len(deferred)
    /\ \A i \in 1..Len(deferred) : cleaned[Len(deferred) + 1 - i] = deferred[i]

\* a failed import whose two registered actions ran
C28_CleanedAfterError ==
  spc = "returned" /\ stageRet = "error" /\ Len(cleaned) = 2 /\ WritesEnded

\* an import that succeeded and removed the stage folder and the local folder
C28_CleanedAfterSuccess ==
  /\ spc = "returned" /\ stageRet = "ok"
  /\ cleaned = <<"REMOVE stageFolderPath", "RemoveAll folderPath">>

\* C30: a run of WriteToDb that has returned has not left the member streams
\* paused: after a df.Pause() that succeeded, df.Unpause() was called on
\* every path, the error returns between the two calls included.
C30_UnpausedOnReturn == returned => ~StreamsPaused

C29_TestVector ==
  /\ dpc = "decoded" /\ decScale = 0 /\ decLength = -1
  /\ decValStr = <<"-", "1", "2", "3", "4", "5", "6">>
  /\ decValBytes = <<254, 29, 192>>

\* C31: at most one transaction is open on the target connection at every
\* point of a run: the staging transaction has ended when the count is
\* checked, the merge transaction begins only with no transaction open and
\* after the count check, and a run that has returned has left no
\* transaction open.
C31_OneTransaction ==
  /\ [](pc \in {"verify", "pre_sql", "empty_check", "begin_merge"} => tx = "none")
  /\ [](tx = "staging" => pc \in {"import", "commit_stg"} /\ ~HasOp("begin_merge"))
  /\ [](tx = "merge" => HasOp("commit_stg") /\ HasOp("get_count")
                          /\ OpAt("get_count") < OpAt("begin_merge"))
  /\ [][(tx' # tx /\ tx' # "none") => tx = "none"]_vars
  /\ [](returned => tx = "none")

\* a run that opened and committed both transactions
C31_Witness ==
  /\ returned /\ ~err /\ tx = "none"
  /\ HasOp("begin_stg") /\ HasOp("commit_stg") /\ HasOp("begin_merge")
  /\ HasOp("commit_merge") /\ OpAt("commit_stg") < OpAt("begin_merge")

\* a run whose merge transaction was rolled back on an error return
C31_RolledBack ==
  /\ returned /\ err /\ tx = "none" /\ HasOp("begin_merge")
  /\ ops[Len(ops)] = "rollback" /\ ~HasOp("commit_merge")

\* C32: for a mode accepted by DetermineType and a staged count above zero,
\* a merge phase that got past its statement executed exactly one of the
\* plain insert, the truncate followed by the insert, and the upsert, and
\* no run of an accepted mode ever executes the table swap.
C32_OneStrategyNoSwap ==
  Called("DetermineType") =>
    /\ ~HasOp("swap") /\ ~HasOp("drop_swapped")
    /\ (pc \in {"post_sql", "commit", "df_err"} /\ cnt > 0) =>
         \/ Count("insert") = 1 /\ Count("truncate") = 0 /\ Count("upsert") = 0
         \/ /\ Count("insert") = 1 /\ Count("truncate") = 1 /\ Count("upsert") = 0
            /\ OpAt("truncate") + 1 = OpAt("insert")
         \/ Count("insert") = 0 /\ Count("truncate") = 0 /\ Count("upsert") = 1

\* a validated run with staged rows got past its merge statement
C32_Witness ==
  /\ Called("DetermineType") /\ ~cfgErr /\ cnt > 0
  /\ pc = "commit" /\ HasOp("begin_merge")
  /\ HasOp("insert") \/ HasOp("upsert")

\* WriteToDb run on a Config that was not validated takes the swap branch
C32_SwapWithoutValidation ==
  /\ ~Called("DetermineType") /\ cnt > 0 /\ pc = "post_sql"
  /\ HasOp("swap") /\ ~tmpTable.exists

\* C34: when a stage PUT failed, CopyViaStage returns an error and the
\* COPY INTO of the stage folder was not executed.
C34_PutFailureAborts ==
  (spc = "returned" /\ putFailed) => (~copied /\ stageRet = "error")

\* the failure of one PUT was overwritten by the success of another before
\* it was tested: the folder was copied and CopyViaStage returned no error
C34_LostPutError ==
  spc = "returned" /\ putFailed /\ copied /\ stageRet = "ok" /\ ~dfErr /\ ~ctxErr

\* a PUT failure that was captured: no COPY INTO and an error returned
C34_CapturedPutError ==
  spc = "returned" /\ putFailed /\ ~copied /\ stageRet = "error"

\* C35: the copy of types made after OptimizeTable changed the final table
\* never reads past the end of the table's column list, and it gives each
\* column of the Dataflow the type of the table's column of the same name.
C35_PositionalCopySafe ==
  /\ [](epc # "panic")
  /\ [][(epc = "final_opt" /\ epc' = "final_merge" /\ finCols' # finCols) =>
          \A i \in 1..Len(dfCols') :
             /\ finCols'[i].name = dfCols'[i].name
             /\ dfCols'[i].type = TypeOf(finCols', dfCols'[i].name)]_vars

\* the final table has fewer columns than the Dataflow: an index past the end
C35_PastTheEnd ==
  epc = "panic" /\ Len(finCols) < Len(dfCols)

\* a final table in the Dataflow's order: each column gets its own type
C35_SameOrderCopied ==
  /\ epc = "final_merge" /\ tgtColumns = finCols /\ ~created /\ finCols # <<>>
  /\ Len(finCols) = Len(dfCols)
  /\ \A i \in 1..Len(dfCols) : finCols[i] = dfCols[i]
  /\ \E i \in 1..Len(dfCols) : dfCols[i].type = "string" /\ dfCols[i].name = "id"

\* C36: pre-SQL is executed after the staging transaction ended and the
\* count check passed, with no transaction open, and before the merge
\* transaction begins; post-SQL is executed in the merge transaction, after
\* the merge statement and before the commit; a run that returned from
\* pre-SQL never began the merge transaction, and a run that returned from
\* post-SQL rolled the merge back.
C36_SQLHooksInOrder ==
  /\ [](HasOp("pre_sql") =>
          /\ HasOp("commit_stg") /\ HasOp("get_count")
          /\ OpAt("commit_stg") < OpAt("get_count")
          /\ OpAt("get_count") < OpAt("pre_sql")
          /\ ~CountMismatch(cnt, tCnt)
          /\ HasOp("begin_merge") => OpAt("pre_sql") < OpAt("begin_merge"))
  /\ [](HasOp("post_sql") =>
          /\ HasOp("begin_merge") /\ OpAt("begin_merge") < OpAt("post_sql")
          /\ cnt > 0 => \E o \in MergeOps : HasOp(o)
          /\ \A o \in MergeOps : HasOp(o) => OpAt(o) < OpAt("post_sql")
          /\ HasOp("commit_merge") => OpAt("post_sql") < OpAt("commit_merge"))
  /\ [][(Len(ops') > Len(ops) /\ ops'[Len(ops) + 1] = "pre_sql") => tx = "none"]_vars
  /\ [][(Len(ops') > Len(ops) /\ ops'[Len(ops) + 1] = "post_sql") => tx = "merge"]_vars
  /\ []((returned /\ pc = "pre_sql") => (err /\ ~HasOp("begin_merge")))
  /\ []((returned /\ pc = "post_sql") =>
          /\ err /\ ops[Len(ops)] = "rollback" /\ ~HasOp("commit_merge")
          /\ finalTable = txSnap)

\* both hooks ran and the run committed: pre-SQL, merge, post-SQL, commit
C36_Witness ==
  /\ returned /\ ~err /\ cnt > 0
  /\ HasOp("pre_sql") /\ HasOp("post_sql") /\ HasOp("commit_merge")

\* pre-SQL failed: the merge transaction was never begun
C36_PreSQLFailed ==
  returned /\ err /\ pc = "pre_sql" /\ ops[Len(ops)] = "pre_sql" /\ finalTable = txSnap

\* post-SQL failed after a merge statement changed the final table
C36_PostSQLFailed ==
  /\ returned /\ err /\ pc = "post_sql" /\ HasOp("post_sql") /\ HasOp("upsert")
  /\ ops[Len(ops)] = "rollback" /\ finalTable = txSnap

\* C37: an interrupt taken with the run sub-command in use cancels the shared
\* context once, and once only, and the process exits afterwards whether or
\* not the command finishes; a SIGTERM makes the process exit with code 111
\* without waiting for the command.
C37_InterruptAndTerm ==
  /\ cancels <= 1
  /\ mainpc = "waiting" => (cancels = 1 /\ interrupted /\ ScUsed)
  /\ ~(mainpc = "waiting" /\ killCh > 0)
  /\ (mainpc = "exited" /\ killCh > 0 /\ cmdpc # "done") => exitStatus = 111

\* the part on the interrupt: one cancel, and that with the run sub-command
\* in use only; no cancel without an interrupt taken
C37_CancelOnce ==
  /\ cancels <= 1
  /\ mainpc = "waiting" => (cancels = 1 /\ interrupted /\ ScUsed)
  /\ cancels = 1 => (interrupted /\ ScUsed /\ mainpc \in {"waiting", "exited"})

\* the part on the exit: once the interrupt is taken, the process exits
C37_ExitsAfterInterrupt ==
  (mainpc = "waiting") ~> (mainpc = "exited")

\* a SIGTERM delivered during the wait that follows an interrupt: the
\* process exited on the timeout, the command unfinished, with exitCode
C37_TermIgnoredWhileWaiting ==
  /\ mainpc = "exited" /\ killCh > 0 /\ cancels = 1 /\ cmdpc # "done"
  /\ exitStatus = 11

\* a SIGTERM taken by the select of main
C37_TermTaken ==
  mainpc = "exited" /\ exitStatus = 111 /\ cmdpc # "done" /\ killCh = 0

\* C38: WriteToDb called with a Dataflow of no columns returns an error and
\* issues no operation on the target connection: no table is dropped or
\* created, no transaction begun, no statement on the final table.
C38_NoColumnsNoOperation ==
  /\ [](dfColumns = 0 =>
          /\ ops = <<>> /\ tx = "none" /\ cleanupTasks = <<>> /\ ~created
          /\ pc = "start"
          /\ returned => err)
  /\ [][(dfColumns = 0) => (UNCHANGED <<tmpTable, finalTable, tx, ops>>)]_vars

\* the run on a Dataflow without columns has returned, tables in place
C38_Witness ==
  /\ dfColumns = 0 /\ returned /\ err /\ ops = <<>> /\ cleanupRan
  /\ tmpTable.exists /\ finalTable.exists

\* C39: with no staged rows and the empty-table override on, the merge phase
\* runs without a truncate, an insert, an upsert or a checksum comparison;
\* the rows of an existing final table are left as they are unless the mode
\* is full-refresh; a run that returns without error has committed the merge
\* transaction and left a final table, empty when it was created by the run.
C39_EmptyRunCreatesTable ==
  /\ [](allowEmptyTables =>
          /\ cnt = 0 /\ checksum = "none"
          /\ \A o \in MergeOps \cup {"checksum", "swap"} : ~HasOp(o)
          /\ (returned /\ ~err) =>
               /\ HasOp("begin_merge") /\ HasOp("create_final")
               /\ ops[Len(ops)] = "commit_merge"
               /\ finalTable.exists
               /\ finalTable.rows = IF Mode = FullRefreshMode \/ ~txSnap.exists
                                     THEN <<>> ELSE txSnap.rows
               /\ HasOp("drop_final") <=> Mode = FullRefreshMode)
  /\ [][(/\ allowEmptyTables /\ Mode # FullRefreshMode
          /\ finalTable.exists /\ (tx # "merge" \/ txSnap.exists)) =>
          (finalTable'.exists /\ finalTable'.rows = finalTable.rows)]_vars

\* full-refresh on a table with rows: dropped, created empty, committed
C39_Witness ==
  /\ allowEmptyTables /\ returned /\ ~err /\ Mode = FullRefreshMode
  /\ txSnap.exists /\ txSnap.rows # <<>> /\ finalTable = Table(<<>>)
  /\ ops[Len(ops)] = "commit_merge"

\* another mode on a table with rows: the rows are there after the commit
C39_RowsKept ==
  /\ allowEmptyTables /\ returned /\ ~err /\ Mode = TruncateMode
  /\ finalTable.rows # <<>> /\ finalTable = txSnap
  /\ ops[Len(ops)] = "commit_merge"

\* no final table before the run: created empty
C39_CreatedEmpty ==
  /\ allowEmptyTables /\ returned /\ ~err /\ Mode = IncrementalMode
  /\ ~txSnap.exists /\ finalTable = Table(<<>>) /\ created

====
